---------------------------- MODULE Spec2Model ----------------------------
(***************************************************************************)
(* A model of scripts/seo-audit.ts of keyrxng.xyz (the content corpus      *)
(* analyzer): term normalisation, TF-IDF ranking, canonical surface forms, *)
(* readability, route hints, per-file analysis and the report aggregation. *)
(*                                                                         *)
(* JavaScript strings are modelled as sequences of one-character strings,  *)
(* so that the regular expressions of the source act on characters.        *)
(***************************************************************************)
EXTENDS Integers, Sequences, FiniteSets, TLC

VARIABLES
    norm,    \* the calls of normalizeTerm under check
    route,   \* the call of guessRouteHint under check
    read,    \* the call of computeReadability under check
    tfidf,   \* the corpus handed to computeTfidfEnhanced / canonicalizeCorpus
    report,  \* the run of generateReport
    link,    \* the call of isExternal under check
    lex,     \* the calls of toWords and filterTerms under check
    pool     \* the worker pool of generateReport over many files

vars == <<norm, route, read, tfidf, report, link, lex, pool>>

\* What each specification leaves alone.
exceptNorm == <<route, read, tfidf, report, link, lex, pool>>

exceptRoute == <<norm, read, tfidf, report, link, lex, pool>>

exceptRead == <<norm, route, tfidf, report, link, lex, pool>>

exceptTfidf == <<norm, route, read, report, link, lex, pool>>

exceptReport == <<norm, route, read, tfidf, link, lex, pool>>

exceptLink == <<norm, route, read, tfidf, report, lex, pool>>

exceptLex == <<norm, route, read, tfidf, report, link, pool>>

exceptPool == <<norm, route, read, tfidf, report, link, lex>>

\* The value of a part of the state that a specification does not use.
Idle == [pc |-> "idle"]

(***************************************************************************)
(* Bounds of the model.                                                    *)
(***************************************************************************)
MaxTermLen == 4

MaxDepth == 2

MaxTextLen == 4

MaxDocs == 2

MaxTokens == 3

MaxFiles == 3
MaxLexLen == 5

MaxPoolFiles == 10

MaxLines == 3

MaxKeywordDocs == 3

(***************************************************************************)
(* Characters and string primitives.                                       *)
(***************************************************************************)
LowerLetters ==
    {"a","b","c","d","e","f","g","h","i","j","k","l","m",
     "n","o","p","q","r","s","t","u","v","w","x","y","z"}

UpperSeq ==
    <<"A","B","C","D","E","F","G","H","I","J","K","L","M",
      "N","O","P","Q","R","S","T","U","V","W","X","Y","Z">>

LowerSeq ==
    <<"a","b","c","d","e","f","g","h","i","j","k","l","m",
      "n","o","p","q","r","s","t","u","v","w","x","y","z">>

Digits == {"0","1","2","3","4","5","6","7","8","9"}

\* The whitespace of the model (a subset of the characters \s matches).
Spaces == {" ", "\t", "\n"}

\* String.prototype.toLowerCase on one character.
LowerChar(c) ==
    IF \E k \in 1..26 : UpperSeq[k] = c
    THEN LowerSeq[CHOOSE k \in 1..26 : UpperSeq[k] = c]
    ELSE c

toLowerCase(s) == [k \in 1..Len(s) |-> LowerChar(s[k])]

\* s.replace(/[^...]/g, "") for a character class: the kept characters in order.
KeepChars(s, keep) == SelectSeq(s, LAMBDA c : c \in keep)

\* String.prototype.trim.
trim(s) ==
    LET inner == {k \in 1..Len(s) : s[k] \notin Spaces}
    IN  IF inner = {} THEN <<>>
        ELSE LET lo == CHOOSE k \in inner : \A j \in inner : k <= j
                 hi == CHOOSE k \in inner : \A j \in inner : k >= j
             IN  SubSeq(s, lo, hi)

\* /^\d+$/.test(s)
AllDigits(s) == Len(s) > 0 /\ \A k \in 1..Len(s) : s[k] \in Digits

EndsWith(s, suf) ==
    Len(s) >= Len(suf) /\ SubSeq(s, Len(s) - Len(suf) + 1, Len(s)) = suf

DropLast(s, n) == SubSeq(s, 1, Len(s) - n)


(***************************************************************************)
(* stemmer: the Porter stemmer of the imported package "stemmer".          *)
(* Its regular expressions are modelled by the cursor positions they can   *)
(* reach: RegExp.test asks whether some match exists.                      *)
(***************************************************************************)
AEIOU == {"a","e","i","o","u"}

AEIOUY == AEIOU \cup {"y"}

\* consonants = ([^aeiou][^aeiouy]*): the cursors after a match starting at i.
ConsonantsEnds(s, i) ==
    IF i <= Len(s) /\ s[i] \notin AEIOU
    THEN {j \in (i+1)..(Len(s)+1) : \A k \in (i+1)..(j-1) : s[k] \notin AEIOUY}
    ELSE {}

\* vowels = ([aeiouy][aeiou]*): the cursors after a match starting at i.
VowelsEnds(s, i) ==
    IF i <= Len(s) /\ s[i] \in AEIOUY
    THEN {j \in (i+1)..(Len(s)+1) : \A k \in (i+1)..(j-1) : s[k] \in AEIOU}
    ELSE {}

\* ^consonants? : the cursors after the optional leading consonant run.
OptConsonants(s) == {1} \cup ConsonantsEnds(s, 1)

\* gt0 = ^consonants?vowels consonants
gt0(s) ==
    \E a \in OptConsonants(s) : \E b \in VowelsEnds(s, a) :
        ConsonantsEnds(s, b) # {}

\* eq1 = ^consonants?vowels consonants vowels?$
eq1(s) ==
    \E a \in OptConsonants(s) : \E b \in VowelsEnds(s, a) :
        \E c \in ConsonantsEnds(s, b) :
            c = Len(s) + 1 \/ (Len(s) + 1) \in VowelsEnds(s, c)

\* gt1 = ^consonants?(vowels consonants){2,}
gt1(s) ==
    \E a \in OptConsonants(s) : \E b \in VowelsEnds(s, a) :
        \E c \in ConsonantsEnds(s, b) : \E d \in VowelsEnds(s, c) :
            ConsonantsEnds(s, d) # {}

\* vowelInStem = ^consonants?[aeiouy]
vowelInStem(s) ==
    \E a \in OptConsonants(s) : a <= Len(s) /\ s[a] \in AEIOUY

\* consonantLike = ^consonants[aeiouy][^aeiouwxy]$
consonantLike(s) ==
    \E a \in ConsonantsEnds(s, 1) :
        /\ a = Len(s) - 1
        /\ s[a] \in AEIOUY
        /\ s[a+1] \notin (AEIOUY \cup {"w","x"})

step2list ==
    << <<<<"a","t","i","o","n","a","l">>, <<"a","t","e">>>>,
       <<<<"t","i","o","n","a","l">>, <<"t","i","o","n">>>>,
       <<<<"e","n","c","i">>, <<"e","n","c","e">>>>,
       <<<<"a","n","c","i">>, <<"a","n","c","e">>>>,
       <<<<"i","z","e","r">>, <<"i","z","e">>>>,
       <<<<"b","l","i">>, <<"b","l","e">>>>,
       <<<<"a","l","l","i">>, <<"a","l">>>>,
       <<<<"e","n","t","l","i">>, <<"e","n","t">>>>,
       <<<<"e","l","i">>, <<"e">>>>,
       <<<<"o","u","s","l","i">>, <<"o","u","s">>>>,
       <<<<"i","z","a","t","i","o","n">>, <<"i","z","e">>>>,
       <<<<"a","t","i","o","n">>, <<"a","t","e">>>>,
       <<<<"a","t","o","r">>, <<"a","t","e">>>>,
       <<<<"a","l","i","s","m">>, <<"a","l">>>>,
       <<<<"i","v","e","n","e","s","s">>, <<"i","v","e">>>>,
       <<<<"f","u","l","n","e","s","s">>, <<"f","u","l">>>>,
       <<<<"o","u","s","n","e","s","s">>, <<"o","u","s">>>>,
       <<<<"a","l","i","t","i">>, <<"a","l">>>>,
       <<<<"i","v","i","t","i">>, <<"i","v","e">>>>,
       <<<<"b","i","l","i","t","i">>, <<"b","l","e">>>>,
       <<<<"l","o","g","i">>, <<"l","o","g">>>> >>

step3list ==
    << <<<<"i","c","a","t","e">>, <<"i","c">>>>,
       <<<<"a","t","i","v","e">>, <<>>>>,
       <<<<"a","l","i","z","e">>, <<"a","l">>>>,
       <<<<"i","c","i","t","i">>, <<"i","c">>>>,
       <<<<"i","c","a","l">>, <<"i","c">>>>,
       <<<<"f","u","l">>, <<>>>>,
       <<<<"n","e","s","s">>, <<>>>> >>

step4list ==
    << <<<<"a","l">>, <<>>>>,
       <<<<"a","n","c","e">>, <<>>>>,
       <<<<"e","n","c","e">>, <<>>>>,
       <<<<"e","r">>, <<>>>>,
       <<<<"i","c">>, <<>>>>,
       <<<<"a","b","l","e">>, <<>>>>,
       <<<<"i","b","l","e">>, <<>>>>,
       <<<<"a","n","t">>, <<>>>>,
       <<<<"e","m","e","n","t">>, <<>>>>,
       <<<<"m","e","n","t">>, <<>>>>,
       <<<<"e","n","t">>, <<>>>>,
       <<<<"o","u">>, <<>>>>,
       <<<<"i","s","m">>, <<>>>>,
       <<<<"a","t","e">>, <<>>>>,
       <<<<"i","t","i">>, <<>>>>,
       <<<<"o","u","s">>, <<>>>>,
       <<<<"i","v","e">>, <<>>>>,
       <<<<"i","z","e">>, <<>>>> >>

\* /^(.+?)(suf1|suf2|...)$/ : the lazy prefix is the shortest one, so the
\* suffix matched is the longest listed suffix that leaves a non-empty prefix.
\* The index into the list, or 0 when the expression does not match.
SuffixMatch(s, list) ==
    LET hits == {k \in 1..Len(list) :
                    EndsWith(s, list[k][1]) /\ Len(s) > Len(list[k][1])}
    IN  IF hits = {} THEN 0
        ELSE CHOOSE k \in hits : \A j \in hits : Len(list[k][1]) >= Len(list[j][1])

\* Step 1a: sfxSsesOrIes = /^.+?(ss|i)es$/, sfxS = /^.+?[^s]s$/
Step1a(s) ==
    IF Len(s) >= 5 /\ EndsWith(s, <<"s","s","e","s">>) THEN DropLast(s, 2)
    ELSE IF Len(s) >= 4 /\ EndsWith(s, <<"i","e","s">>) THEN DropLast(s, 2)
    ELSE IF Len(s) >= 3 /\ s[Len(s)] = "s" /\ s[Len(s)-1] # "s" THEN DropLast(s, 1)
    ELSE s

\* sfxMultiConsonantLike = /([^aeiouylsz])\1$/
MultiConsonantLike(s) ==
    /\ Len(s) >= 2
    /\ s[Len(s)] = s[Len(s)-1]
    /\ s[Len(s)] \notin (AEIOUY \cup {"l","s","z"})

\* Step 1b: sfxEED = /^(.+?)eed$/, sfxEdOrIng = /^(.+?)(ed|ing)$/
Step1b(s) ==
    IF Len(s) >= 4 /\ EndsWith(s, <<"e","e","d">>)
    THEN IF gt0(DropLast(s, 3)) THEN DropLast(s, 1) ELSE s
    ELSE LET n == IF Len(s) >= 3 /\ EndsWith(s, <<"e","d">>) THEN 2
                  ELSE IF Len(s) >= 4 /\ EndsWith(s, <<"i","n","g">>) THEN 3
                  ELSE 0
             r == DropLast(s, n)
         IN  IF n = 0 \/ ~vowelInStem(r) THEN s
             ELSE IF \/ EndsWith(r, <<"a","t">>)
                     \/ EndsWith(r, <<"b","l">>)
                     \/ EndsWith(r, <<"i","z">>) THEN r \o <<"e">>
             ELSE IF MultiConsonantLike(r) THEN DropLast(r, 1)
             ELSE IF consonantLike(r) THEN r \o <<"e">>
             ELSE r

\* Step 1c: sfxY = /^(.+?)y$/
Step1c(s) ==
    IF Len(s) >= 2 /\ s[Len(s)] = "y" /\ vowelInStem(DropLast(s, 1))
    THEN DropLast(s, 1) \o <<"i">>
    ELSE s

\* Steps 2 and 3: replace the suffix when the prefix has measure > 0.
StepTable(s, list) ==
    LET k == SuffixMatch(s, list)
    IN  IF k = 0 THEN s
        ELSE LET stem == DropLast(s, Len(list[k][1]))
             IN  IF gt0(stem) THEN stem \o list[k][2] ELSE s

\* Step 4: drop the suffix when the prefix has measure > 1;
\* sfxIon = /^(.+?(s|t))(ion)$/ is tried only when no listed suffix matches.
Step4(s) ==
    LET k == SuffixMatch(s, step4list)
    IN  IF k # 0
        THEN LET stem == DropLast(s, Len(step4list[k][1]))
             IN  IF gt1(stem) THEN stem ELSE s
        ELSE IF /\ Len(s) >= 5
                /\ EndsWith(s, <<"i","o","n">>)
                /\ s[Len(s)-3] \in {"s","t"}
                /\ gt1(DropLast(s, 3))
             THEN DropLast(s, 3)
             ELSE s

\* Step 5: sfxE = /^(.+?)e$/, then sfxLl = /ll$/
Step5(s) ==
    LET m == DropLast(s, 1)
        r == IF /\ Len(s) >= 2
                /\ s[Len(s)] = "e"
                /\ (gt1(m) \/ (eq1(m) /\ ~consonantLike(m)))
             THEN m ELSE s
    IN  IF EndsWith(r, <<"l","l">>) /\ gt1(r) THEN DropLast(r, 1) ELSE r

stemmer(value) ==
    LET result == toLowerCase(value)
    IN  IF Len(result) < 3 THEN result
        ELSE LET firstY == result[1] = "y"
                 r0 == IF firstY THEN <<"Y">> \o Tail(result) ELSE result
                 r5 == Step5(Step4(StepTable(StepTable(
                           Step1c(Step1b(Step1a(r0))), step2list), step3list)))
             IN  IF firstY THEN <<"y">> \o Tail(r5) ELSE r5

(***************************************************************************)
(* normalizeTerm                                                           *)
(***************************************************************************)
\* t.toLowerCase().replace(/[^a-z0-9\s]/g, "").trim()
StripTerm(t) ==
    trim(KeepChars(toLowerCase(t), LowerLetters \cup Digits \cup Spaces))

\* A variant that stems the raw term and strips afterwards.
normalizeTerm_StemFirst(t) ==
    LET s == StripTerm(stemmer(t))
    IN  s

normalizeTerm(t) ==
    LET s == StripTerm(t)
    IN  IF s = <<>> THEN <<>>
        ELSE IF AllDigits(s) \/ Len(s) <= 2 THEN s
        ELSE stemmer(s)


(***************************************************************************)
(* Specification SpecNorm: normalizeTerm applied to every string over      *)
(* TermChars of length at most MaxTermLen, and applied again to its own    *)
(* result.                                                                 *)
(***************************************************************************)
TermChars == {"a", "e", "s", "t", "2", " ", "/", "T"}

NormInit ==
    /\ norm = [pc |-> "input", t |-> <<>>, out |-> <<>>, again |-> <<>>]
    /\ route = Idle /\ read = Idle /\ tfidf = Idle /\ report = Idle /\ link = Idle /\ lex = Idle /\ pool = Idle

\* The caller builds the argument, one character at a time.
NormType(c) ==
    /\ norm.pc = "input"
    /\ Len(norm.t) < MaxTermLen
    /\ norm' = [norm EXCEPT !.t = Append(@, c)]
    /\ UNCHANGED exceptNorm

\* normalizeTerm(t)
NormCall ==
    /\ norm.pc = "input"
    /\ norm' = [norm EXCEPT !.pc = "called", !.out = normalizeTerm(norm.t)]
    /\ UNCHANGED exceptNorm

\* normalizeTerm(normalizeTerm(t))
NormAgain ==
    /\ norm.pc = "called"
    /\ norm' = [norm EXCEPT !.pc = "done", !.again = normalizeTerm(norm.out)]
    /\ UNCHANGED exceptNorm

NormNext ==
    \/ \E c \in TermChars : NormType(c)
    \/ NormCall
    \/ NormAgain

SpecNorm == NormInit /\ [][NormNext]_vars


(***************************************************************************)
(* Claims about normalizeTerm (SpecNorm).                                  *)
(***************************************************************************)
\* The characters of t that are a-z, 0-9 or whitespace after lowercasing,
\* nothing else removed.
LowercasedAndDeleted(t) ==
    SelectSeq([k \in 1..Len(t) |-> LowerChar(t[k])],
              LAMBDA c : c \in LowerLetters \cup Digits \cup Spaces)

\* The three cases of the result, for a given cleaned form s.
ThreeCases(s) ==
    IF s = <<>> THEN <<>>
    ELSE IF (\A k \in 1..Len(s) : s[k] \in Digits) \/ Len(s) <= 2 THEN s
    ELSE stemmer(s)

\* C7 as stated: normalizeTerm(t) is '' / the stripped form / stem(stripped
\* form), where the stripped form is t lowercased with every character that is
\* not a-z, 0-9 or whitespace deleted (and nothing else done to it).
C7_AsStated ==
    norm.pc \in {"called", "done"} =>
        norm.out = ThreeCases(LowercasedAndDeleted(norm.t))

\* C7 amended: as C7, with the stripped form also trimmed of leading and
\* trailing whitespace before the three cases are told apart.
C7_StripTrimThenStem ==
    norm.pc \in {"called", "done"} =>
        norm.out = ThreeCases(trim(LowercasedAndDeleted(norm.t)))

\* C7 witness: a call whose argument lost characters to the strip, kept
\* more than two, and was changed by the stemmer after that.
C7_Witness ==
    /\ norm.pc = "called"
    /\ Len(LowercasedAndDeleted(norm.t)) < Len(norm.t)
    /\ Len(trim(LowercasedAndDeleted(norm.t))) > 2
    /\ norm.out # trim(LowercasedAndDeleted(norm.t))
    /\ norm.out # <<>>

\* C8: normalizeTerm is idempotent: normalizeTerm(normalizeTerm(t)) =
\* normalizeTerm(t) for every input string t.
C8_Idempotent == norm.pc = "done" => norm.again = norm.out


(***************************************************************************)
(* Paths and guessRouteHint.                                               *)
(***************************************************************************)
StartsWith(s, pre) == Len(s) >= Len(pre) /\ SubSeq(s, 1, Len(pre)) = pre

\* String.prototype.split(sep) for a one-character separator.
RECURSIVE Split(_, _)
Split(s, sep) ==
    LET at == {k \in 1..Len(s) : s[k] = sep}
    IN  IF at = {} THEN <<s>>
        ELSE LET k == CHOOSE x \in at : \A y \in at : x <= y
             IN  <<SubSeq(s, 1, k - 1)>> \o Split(SubSeq(s, k + 1, Len(s)), sep)

\* Array.prototype.join(sep)
RECURSIVE Join(_, _)
Join(parts, sep) ==
    IF parts = <<>> THEN <<>>
    ELSE IF Len(parts) = 1 THEN parts[1]
    ELSE parts[1] \o <<sep>> \o Join(Tail(parts), sep)

\* Array.prototype.indexOf, 1-based; 0 when absent.
IndexOf(parts, x) ==
    LET at == {k \in 1..Len(parts) : parts[k] = x}
    IN  IF at = {} THEN 0 ELSE CHOOSE k \in at : \A j \in at : k <= j

\* path.relative(from, to) for a file `to` found by walking the directory
\* `from`, with backslashes replaced (the model's paths use "/").
pathRelative(from, to) ==
    IF to = from THEN <<>>
    ELSE IF StartsWith(to, from \o <<"/">>)
         THEN SubSeq(to, Len(from) + 2, Len(to))
         ELSE to

\* \.[^.]+$ matches at q
DotExtAt(s, q) ==
    /\ q < Len(s)
    /\ s[q] = "."
    /\ \A k \in (q+1)..Len(s) : s[k] # "."

\* (index)?\.[^.]+$ matches at p
IndexDotExtAt(s, p) ==
    \/ /\ p + 5 <= Len(s)
       /\ SubSeq(s, p, p + 4) = <<"i","n","d","e","x">>
       /\ DotExtAt(s, p + 5)
    \/ DotExtAt(s, p)

\* s.replace(/(index)?\.[^.]+$/, ""): the leftmost match is cut off.
ReplaceIndexDotExt(s) ==
    LET at == {p \in 1..Len(s) : IndexDotExtAt(s, p)}
    IN  IF at = {} THEN s
        ELSE SubSeq(s, 1, (CHOOSE p \in at : \A r \in at : p <= r) - 1)

\* s.replace(/\.[^.]+$/, "")
ReplaceDotExt(s) ==
    LET at == {p \in 1..Len(s) : DotExtAt(s, p)}
    IN  IF at = {} THEN s
        ELSE SubSeq(s, 1, (CHOOSE p \in at : \A r \in at : p <= r) - 1)

\* s.replace(/\/index$/, "")
ReplaceSlashIndex(s) ==
    IF EndsWith(s, <<"/","i","n","d","e","x">>) THEN DropLast(s, 6) ELSE s

guessRouteHint(filePath, rootDir) ==
    LET rel == pathRelative(rootDir, filePath)
        parts == Split(rel, "/")
        pagesIdx == IndexOf(parts, <<"p","a","g","e","s">>)
    IN  IF pagesIdx # 0
        THEN LET after == Join(SubSeq(parts, pagesIdx + 1, Len(parts)), "/")
             IN  IF after = <<>> THEN <<"/">>
                 ELSE <<"/">> \o ReplaceSlashIndex(ReplaceIndexDotExt(after))
        ELSE <<"/">> \o ReplaceDotExt(rel)

(***************************************************************************)
(* Specification SpecRoute: guessRouteHint applied to every file at depth  *)
(* at most MaxDepth below the root, with directory names, base names and   *)
(* extensions drawn from the sets below.                                   *)
(***************************************************************************)
RouteRoot == <<"/","s","r","c">>

DirNames == { <<"p","a","g","e","s">>, <<"b","l","o","g">>, <<"i","n","d","e","x">> }

BaseNames ==
    { <<"i","n","d","e","x">>, <<"r","e","i","n","d","e","x">>,
      <<"a","b","o","u","t">>, <<"a",".","b">> }

ExtNames == { <<"m","d">>, <<"a","s","t","r","o">> }

RouteInit ==
    /\ route = [pc |-> "walk", dirs |-> <<>>, base |-> <<>>, ext |-> <<>>,
                filePath |-> <<>>, hint |-> <<>>]
    /\ norm = Idle /\ read = Idle /\ tfidf = Idle /\ report = Idle /\ link = Idle /\ lex = Idle /\ pool = Idle

\* walkFiles descends into a sub-directory.
RouteEnterDir(d) ==
    /\ route.pc = "walk"
    /\ Len(route.dirs) < MaxDepth
    /\ route' = [route EXCEPT !.dirs = Append(@, d)]
    /\ UNCHANGED exceptRoute

\* analyzeFile calls guessRouteHint for a file found in the directory.
RouteFile(b, e) ==
    /\ route.pc = "walk"
    /\ LET full == Join(<<RouteRoot>> \o route.dirs \o <<b \o <<".">> \o e>>, "/")
       IN  route' = [route EXCEPT !.pc = "done", !.base = b, !.ext = e,
                                  !.filePath = full,
                                  !.hint = guessRouteHint(full, RouteRoot)]
    /\ UNCHANGED exceptRoute

RouteNext ==
    \/ \E d \in DirNames : RouteEnterDir(d)
    \/ \E b \in BaseNames, e \in ExtNames : RouteFile(b, e)

SpecRoute == RouteInit /\ [][RouteNext]_vars

\* The directories of the file below the first directory named pages.
DirsAfterPages(dirs) ==
    LET at == {k \in 1..Len(dirs) : dirs[k] = <<"p","a","g","e","s">>}
    IN  SubSeq(dirs, (CHOOSE k \in at : \A j \in at : k <= j) + 1, Len(dirs))

BelowPages(dirs) == \E k \in 1..Len(dirs) : dirs[k] = <<"p","a","g","e","s">>

\* C5: below a path component named pages, index.<ext> directly under pages
\* maps to "/", and every file whose base name is not "index" (base names
\* ending in "index" and files in sub-directories included) maps to "/"
\* followed by its directories and base name, only the extension removed.
C5_RouteHint ==
    (route.pc = "done" /\ BelowPages(route.dirs)) =>
        LET sub == DirsAfterPages(route.dirs)
        IN  /\ (sub = <<>> /\ route.base = <<"i","n","d","e","x">>)
                   => route.hint = <<"/">>
            /\ route.base # <<"i","n","d","e","x">>
                   => route.hint = <<"/">> \o Join(sub \o <<route.base>>, "/")


(***************************************************************************)
(* countSyllables and computeReadability.                                  *)
(***************************************************************************)
Max(a, b) == IF a >= b THEN a ELSE b

\* The non-empty maximal runs of characters of s that are in `keep`:
\* s with every other character replaced by " ", split on whitespace runs,
\* empty pieces filtered out.
RECURSIVE Runs(_, _)
Runs(s, keep) ==
    LET in == {k \in 1..Len(s) : s[k] \in keep}
    IN  IF in = {} THEN <<>>
        ELSE LET lo == CHOOSE k \in in : \A j \in in : k <= j
                 out == {k \in lo..Len(s) : s[k] \notin keep}
                 hi == IF out = {} THEN Len(s) + 1
                       ELSE CHOOSE k \in out : \A j \in out : k <= j
             IN  <<SubSeq(s, lo, hi - 1)>> \o Runs(SubSeq(s, hi, Len(s)), keep)

\* The vowel groups of w from position k on, prevVowel telling whether the
\* character before k is a vowel.
RECURSIVE VowelGroups(_, _, _)
VowelGroups(w, k, prevVowel) ==
    IF k > Len(w) THEN 0
    ELSE LET isVowel == w[k] \in AEIOUY
         IN  (IF isVowel /\ ~prevVowel THEN 1 ELSE 0) + VowelGroups(w, k + 1, isVowel)

countSyllables(word) ==
    LET w == KeepChars(toLowerCase(word), LowerLetters)
    IN  IF w = <<>> THEN 0
        ELSE LET count == VowelGroups(w, 1, FALSE)
                 c2 == IF w[Len(w)] = "e" /\ count > 1 THEN count - 1 ELSE count
             IN  Max(1, c2)

SentenceEnd == {".", "!", "?"}

\* text.split(/[.!?]+\s+/).filter(Boolean).length, scanning from position k
\* with `cur` characters in the piece being read.  The expression matches at k
\* when the run of . ! ? that starts there is followed by whitespace; the
\* match then takes all of that whitespace.
RECURSIVE CountPieces(_, _, _)
CountPieces(text, k, cur) ==
    IF k > Len(text) THEN (IF cur > 0 THEN 1 ELSE 0)
    ELSE IF text[k] \in SentenceEnd
    THEN LET notEnd == {j \in k..Len(text) : text[j] \notin SentenceEnd}
             q == IF notEnd = {} THEN Len(text) + 1
                  ELSE CHOOSE j \in notEnd : \A x \in notEnd : j <= x
         IN  IF q <= Len(text) /\ text[q] \in Spaces
             THEN LET notSp == {j \in q..Len(text) : text[j] \notin Spaces}
                      r == IF notSp = {} THEN Len(text) + 1
                           ELSE CHOOSE j \in notSp : \A x \in notSp : j <= x
                  IN  (IF cur > 0 THEN 1 ELSE 0) + CountPieces(text, r, 0)
             ELSE CountPieces(text, q, cur + (q - k))
    ELSE CountPieces(text, k + 1, cur + 1)

\* text.toLowerCase().replace(/[^a-z\s]/g, " ").split(/\s+/).filter(Boolean)
ReadabilityWords(text) == Runs(toLowerCase(text), LowerLetters)

\* sentenceCount = Math.max(1, sentences.length), without the floor.
SentenceCount_NoFloor(n) == n

\* sentenceCount = Math.max(1, sentences.length)
SentenceCount(n) == Max(1, n)

RECURSIVE SumSyllables(_)
SumSyllables(words) ==
    IF words = <<>> THEN 0
    ELSE countSyllables(Head(words)) + SumSyllables(Tail(words))

\* A JavaScript division a / b, kept as the fraction: b = 0 is a division by
\* zero (NaN or Infinity in the program).
Quotient(a, b) == [num |-> a, den |-> b]

\* k * q in thousandths (truncated), for a fraction with a non-zero
\* denominator.
Thousandths(k, q) == (k * q.num) \div q.den

\* base + kw * wps + ks * spw in thousandths; not a number when one of the
\* fractions is a division by zero.
FleschIndex(base, kw, wps, ks, spw) ==
    IF wps.den = 0 \/ spw.den = 0 THEN [nan |-> TRUE, milli |-> 0]
    ELSE [nan |-> FALSE,
          milli |-> base + Thousandths(kw, wps) + Thousandths(ks, spw)]

computeReadability(text) ==
    LET sentences == CountPieces(text, 1, 0)
        words == ReadabilityWords(text)
        wordCount == Len(words)
        sentenceCount == SentenceCount(sentences)
        syllableCount == SumSyllables(words)
        wordsPerSentence == Quotient(wordCount, sentenceCount)
        syllablesPerWord == IF wordCount # 0 THEN Quotient(syllableCount, wordCount)
                            ELSE Quotient(0, 1)
    IN  [ fleschReadingEase |->
              FleschIndex(206835, -1015, wordsPerSentence, -84600, syllablesPerWord),
          fleschKincaidGrade |->
              FleschIndex(-15590, 390, wordsPerSentence, 11800, syllablesPerWord),
          wordCount |-> wordCount,
          sentenceCount |-> sentenceCount,
          wordsPerSentence |-> wordsPerSentence,
          syllablesPerWord |-> syllablesPerWord ]

(***************************************************************************)
(* Specification SpecRead: computeReadability applied to every text over   *)
(* ReadChars of length at most MaxTextLen.                                 *)
(***************************************************************************)
ReadChars == {"a", "e", "B", ".", "!", " ", "7"}

ReadInit ==
    /\ read = [pc |-> "input", text |-> <<>>]
    /\ norm = Idle /\ route = Idle /\ tfidf = Idle /\ report = Idle /\ link = Idle /\ lex = Idle /\ pool = Idle

ReadType(c) ==
    /\ read.pc = "input"
    /\ Len(read.text) < MaxTextLen
    /\ read' = [read EXCEPT !.text = Append(@, c)]
    /\ UNCHANGED exceptRead

ReadCall ==
    /\ read.pc = "input"
    /\ read' = [pc |-> "done", text |-> read.text, r |-> computeReadability(read.text)]
    /\ UNCHANGED exceptRead

ReadNext ==
    \/ \E c \in ReadChars : ReadType(c)
    \/ ReadCall

SpecRead == ReadInit /\ [][ReadNext]_vars

\* Whether the text holds a letter, that is, whether its word sequence is
\* non-empty.
HasLetter(text) ==
    \E k \in 1..Len(text) : text[k] \in LowerLetters \/ LowerChar(text[k]) # text[k]

\* C9: computeReadability never divides by zero: sentenceCount >= 1 for every
\* text, and for a text with an empty word sequence wordCount = 0,
\* words-per-sentence = 0 and syllables-per-word = 0.
C9_NoDivisionByZero ==
    read.pc = "done" =>
        /\ read.r.sentenceCount >= 1
        /\ read.r.wordsPerSentence.den # 0
        /\ read.r.syllablesPerWord.den # 0
        /\ ~read.r.fleschReadingEase.nan
        /\ ~read.r.fleschKincaidGrade.nan
        /\ ~HasLetter(read.text) =>
              /\ read.r.wordCount = 0
              /\ read.r.wordsPerSentence.num = 0
              /\ read.r.syllablesPerWord.num = 0

\* C9 witness: a non-empty text without a single word (and so without a
\* sentence that has words) has been scored.
C9_Witness ==
    /\ read.pc = "done"
    /\ read.text # <<>>
    /\ ~HasLetter(read.text)
    /\ read.r.wordCount = 0


(***************************************************************************)
(* JavaScript Maps, kept as sequences of <<key, value>> pairs in insertion *)
(* order (the order a Map iterates in).                                    *)
(***************************************************************************)
MapIndex(mp, k) ==
    LET at == {x \in 1..Len(mp) : mp[x][1] = k}
    IN  IF at = {} THEN 0 ELSE CHOOSE x \in at : TRUE

MapHas(mp, k) == MapIndex(mp, k) # 0

\* mp.get(k) || d
MapGet(mp, k, d) == IF MapHas(mp, k) THEN mp[MapIndex(mp, k)][2] ELSE d

\* mp.set(k, v): a new key goes last, a known key keeps its place.
MapSet(mp, k, v) ==
    IF MapHas(mp, k) THEN [mp EXCEPT ![MapIndex(mp, k)] = <<k, v>>]
    ELSE Append(mp, <<k, v>>)

(***************************************************************************)
(* computeTfidfEnhanced and canonicalizeCorpus.                            *)
(***************************************************************************)
\* Math.log(n) in ten-thousandths, for the small integers the model reaches
\* (TLC's integers are 32 bits wide: a score is a product of two such values).
LnTable == <<0, 6931, 10986, 13863, 16094, 17918, 19459, 20794>>

\* 1 in ten-thousandths.
One == 10000

\* opts?.minDocFreq ?? 2
DefaultMinDocFreq == 2

\* topK = 25
DefaultTopK == 25

NoOpts == [given |-> FALSE, minDocFreq |-> 0]

MinDocFreqOpt(n) == [given |-> TRUE, minDocFreq |-> n]

MinDocFreqOf(opts) == IF opts.given THEN opts.minDocFreq ELSE DefaultMinDocFreq

\* surfaceMap after the terms of one document (or of a list of terms).
\* (The first test, here and in the loops below, returns the map it is
\* given; it makes TLC compute the map of every round before the following
\* one instead of nesting the rounds.)
RECURSIVE AddSurfaces(_, _)
AddSurfaces(surfaceMap, terms) ==
    IF surfaceMap = <<>> /\ terms = <<>> THEN <<>>
    ELSE IF terms = <<>> THEN surfaceMap
    ELSE LET surf == Head(terms)
             nrm == normalizeTerm(surf)
         IN  IF nrm = <<>> THEN AddSurfaces(surfaceMap, Tail(terms))
             ELSE LET mp == MapGet(surfaceMap, nrm, <<>>)
                      m2 == MapSet(mp, surf, MapGet(mp, surf, 0) + 1)
                  IN  AddSurfaces(MapSet(surfaceMap, nrm, m2), Tail(terms))

RECURSIVE SurfaceMapOf(_, _)
SurfaceMapOf(surfaceMap, allDocs) ==
    IF allDocs = <<>> THEN surfaceMap
    ELSE SurfaceMapOf(AddSurfaces(surfaceMap, Head(allDocs).terms), Tail(allDocs))

\* d.terms.map(normalizeTerm).filter(Boolean)
Normals(terms) ==
    SelectSeq([k \in 1..Len(terms) |-> normalizeTerm(terms[k])], LAMBDA t : t # <<>>)

\* new Set(normals), in insertion order
RECURSIVE Unique(_)
Unique(normals) ==
    IF normals = <<>> THEN <<>>
    ELSE LET rest == Unique(SubSeq(normals, 1, Len(normals) - 1))
             last == normals[Len(normals)]
         IN  IF \E k \in 1..Len(rest) : rest[k] = last THEN rest ELSE Append(rest, last)

\* for (const t of unique) termDocFreq.set(t, (termDocFreq.get(t) || 0) + 1)
RECURSIVE CountEach(_, _)
CountEach(mp, keys) ==
    IF mp = <<>> /\ keys = <<>> THEN <<>>
    ELSE IF keys = <<>> THEN mp
    ELSE CountEach(MapSet(mp, Head(keys), MapGet(mp, Head(keys), 0) + 1), Tail(keys))

RECURSIVE TermDocFreqOf(_, _)
TermDocFreqOf(termDocFreq, allDocs) ==
    IF allDocs = <<>> THEN termDocFreq
    ELSE TermDocFreqOf(CountEach(termDocFreq, Unique(Normals(Head(allDocs).terms))),
                       Tail(allDocs))

\* tf of one document: every normalized term counted, in order of first
\* occurrence.
TermFreqOf(terms) == CountEach(<<>>, Normals(terms))

\* if (df < minDocFreq) continue, with <= for <.
SkipRare_OffByOne(df, minDocFreq) == df <= minDocFreq

\* if (df < minDocFreq) continue
SkipRare(df, minDocFreq) == df < minDocFreq

\* subtf = 1 + Math.log(f), without the 1.
SublinearTf_NoOne(f) == LnTable[f]

\* subtf = 1 + Math.log(f)
SublinearTf(f) == One + LnTable[f]

\* idf = Math.log((docCount + 1) / (df + 1)) + 1
SmoothedIdf(docCount, df) == LnTable[docCount + 1] - LnTable[df + 1] + One

\* score = subtf * idf (in units of 10^-8)
Score(f, df, docCount) == SublinearTf(f) * SmoothedIdf(docCount, df)

\* The scores one document adds, in the order of its tf entries.
RECURSIVE DocContributions(_, _, _, _, _)
DocContributions(doc, entries, termDocFreq, minDocFreq, docCount) ==
    IF entries = <<>> THEN <<>>
    ELSE LET t == Head(entries)[1]
             f == Head(entries)[2]
             df == MapGet(termDocFreq, t, 0)
             rest == DocContributions(doc, Tail(entries), termDocFreq, minDocFreq, docCount)
         IN  IF SkipRare(df, minDocFreq) THEN rest
             ELSE <<[doc |-> doc, t |-> t, f |-> f, df |-> df,
                     score |-> Score(f, df, docCount)]>> \o rest

\* All score contributions of the scoring loop, in loop order.
RECURSIVE Contributions(_, _, _, _, _)
Contributions(allDocs, k, termDocFreq, minDocFreq, docCount) ==
    IF k > Len(allDocs) THEN <<>>
    ELSE DocContributions(k, TermFreqOf(allDocs[k].terms), termDocFreq, minDocFreq, docCount)
         \o Contributions(allDocs, k + 1, termDocFreq, minDocFreq, docCount)

\* tfidfScores.set(t, (tfidfScores.get(t) || 0) + score)
RECURSIVE Accumulate(_, _)
Accumulate(tfidfScores, contribs) ==
    IF tfidfScores = <<>> /\ contribs = <<>> THEN <<>>
    ELSE IF contribs = <<>> THEN tfidfScores
    ELSE LET c == Head(contribs)
         IN  Accumulate(MapSet(tfidfScores, c.t, MapGet(tfidfScores, c.t, 0) + c.score),
                        Tail(contribs))

\* The test of the surface loop, preferring the longer of two equally
\* frequent surfaces.
BetterSurface_Longer(surf, cnt, best, bestCount) ==
    cnt > bestCount \/ (cnt = bestCount /\ (best = <<>> \/ Len(surf) > Len(best)))

\* cnt > bestCount || (cnt === bestCount && (best === "" || surf.length < best.length))
BetterSurface(surf, cnt, best, bestCount) ==
    cnt > bestCount \/ (cnt = bestCount /\ (best = <<>> \/ Len(surf) < Len(best)))

\* for (const [surf, cnt] of m) { ... }: <<best, bestCount>> after the loop.
RECURSIVE PickBest(_, _, _)
PickBest(mp, best, bestCount) ==
    IF mp = <<>> THEN <<best, bestCount>>
    ELSE LET surf == Head(mp)[1]
             cnt == Head(mp)[2]
         IN  IF BetterSurface(surf, cnt, best, bestCount)
             THEN PickBest(Tail(mp), surf, cnt)
             ELSE PickBest(Tail(mp), best, bestCount)

\* A canonical form that is the term normalized once more.
canonicalForm_Renormalized(surfaceMap, nrm) == normalizeTerm(nrm)

\* computeTfidfEnhanced.canonicalForm
canonicalForm(surfaceMap, nrm) ==
    IF ~MapHas(surfaceMap, nrm) THEN nrm
    ELSE LET best == PickBest(MapGet(surfaceMap, nrm, <<>>), <<>>, 0)[1]
         IN  IF best # <<>> THEN best ELSE nrm

\* arr.sort((a, b) => b.tfidf - a.tfidf): a stable sort, descending.
RECURSIVE SortByScore(_)
SortByScore(arr) ==
    IF arr = <<>> THEN <<>>
    ELSE LET sorted == SortByScore(SubSeq(arr, 1, Len(arr) - 1))
             x == arr[Len(arr)]
             before == {k \in 1..Len(sorted) : sorted[k].tfidf >= x.tfidf}
             n == IF before = {} THEN 0
                  ELSE CHOOSE k \in before : \A j \in before : k >= j
         IN  SubSeq(sorted, 1, n) \o <<x>> \o SubSeq(sorted, n + 1, Len(sorted))

\* arr.slice(0, topK)
Slice(arr, n) == SubSeq(arr, 1, IF n < Len(arr) THEN n ELSE Len(arr))

\* The local state of computeTfidfEnhanced before the sort: the score
\* contributions, and the scored normalized terms with their surface forms.
TfidfTrace(allDocs, opts) ==
    LET minDocFreq == MinDocFreqOf(opts)
        docCount == Len(allDocs)
        termDocFreq == TermDocFreqOf(<<>>, allDocs)
        surfaceMap == SurfaceMapOf(<<>>, allDocs)
        contribs == Contributions(allDocs, 1, termDocFreq, minDocFreq, docCount)
        tfidfScores == Accumulate(<<>>, contribs)
    IN  [ contribs |-> contribs,
          scored |-> [k \in 1..Len(tfidfScores) |->
                        [ nrm |-> tfidfScores[k][1],
                          term |-> canonicalForm(surfaceMap, tfidfScores[k][1]),
                          tfidf |-> tfidfScores[k][2] ]] ]

\* arr, sorted and cut to topK, from the scored terms.
RankScored(scored, topK) ==
    LET arr == [k \in 1..Len(scored) |->
                   [term |-> scored[k].term, tfidf |-> scored[k].tfidf]]
    IN  Slice(SortByScore(arr), topK)

computeTfidfEnhanced(allDocs, topK, opts) ==
    RankScored(TfidfTrace(allDocs, opts).scored, topK)

canonicalizeCorpus(allDocs) ==
    LET surfaceMap == SurfaceMapOf(<<>>, allDocs)
    IN  [k \in 1..Len(surfaceMap) |->
            LET best == PickBest(surfaceMap[k][2], <<>>, 0)[1]
            IN  <<surfaceMap[k][1], IF best # <<>> THEN best ELSE surfaceMap[k][1]>>]


(***************************************************************************)
(* Specification SpecTfidf: computeTfidfEnhanced and canonicalizeCorpus    *)
(* applied to every corpus of at most MaxDocs documents holding at most    *)
(* MaxTokens terms in all, the terms drawn from Surfaces.                  *)
(***************************************************************************)
\* "tests" and "test" normalize to "test"; "atse" to "ats"; "ats" to "at";
\* "/" to "" (discarded).
Surfaces ==
    { <<"t","e","s","t","s">>, <<"t","e","s","t">>, <<"a","t","s","e">>,
      <<"a","t","s">>, <<"/">> }

\* The <<topK, opts>> the callers pass: the defaults, minDocFreq 1 and 2,
\* and a topK that cuts the list.
RankChoices ==
    { <<DefaultTopK, NoOpts>>, <<DefaultTopK, MinDocFreqOpt(1)>>,
      <<DefaultTopK, MinDocFreqOpt(2)>>, <<1, MinDocFreqOpt(1)>> }

RECURSIVE TotalTerms(_)
TotalTerms(allDocs) ==
    IF allDocs = <<>> THEN 0 ELSE Len(Head(allDocs).terms) + TotalTerms(Tail(allDocs))

TfidfInit ==
    /\ tfidf = [pc |-> "build", allDocs |-> <<>>]
    /\ norm = Idle /\ route = Idle /\ read = Idle /\ report = Idle /\ link = Idle /\ lex = Idle /\ pool = Idle

\* The caller adds a document to the corpus.
TfidfNewDoc ==
    /\ tfidf.pc = "build"
    /\ Len(tfidf.allDocs) < MaxDocs
    /\ tfidf' = [tfidf EXCEPT !.allDocs = Append(@, [id |-> Len(@) + 1, terms |-> <<>>])]
    /\ UNCHANGED exceptTfidf

\* The caller adds a term to the last document.
TfidfAddTerm(surf) ==
    /\ tfidf.pc = "build"
    /\ tfidf.allDocs # <<>>
    /\ TotalTerms(tfidf.allDocs) < MaxTokens
    /\ tfidf' = [tfidf EXCEPT !.allDocs[Len(tfidf.allDocs)].terms = Append(@, surf)]
    /\ UNCHANGED exceptTfidf

\* computeTfidfEnhanced(allDocs, topK, opts)
TfidfRank(topK, opts) ==
    /\ tfidf.pc = "build"
    /\ LET trace == TfidfTrace(tfidf.allDocs, opts)
       IN  tfidf' = [ pc |-> "ranked",
                      allDocs |-> tfidf.allDocs,
                      topK |-> topK,
                      opts |-> opts,
                      trace |-> trace,
                      top |-> RankScored(trace.scored, topK) ]
    /\ UNCHANGED exceptTfidf

\* canonicalizeCorpus(allDocs)
TfidfCanonicalize ==
    /\ tfidf.pc = "build"
    /\ tfidf' = [ pc |-> "canonical",
                  allDocs |-> tfidf.allDocs,
                  canonical |-> canonicalizeCorpus(tfidf.allDocs) ]
    /\ UNCHANGED exceptTfidf

TfidfNext ==
    \/ TfidfNewDoc
    \/ \E surf \in Surfaces : TfidfAddTerm(surf)
    \/ \E c \in RankChoices : TfidfRank(c[1], c[2])
    \/ TfidfCanonicalize

SpecTfidf == TfidfInit /\ [][TfidfNext]_vars


(***************************************************************************)
(* Claims about computeTfidfEnhanced and canonicalizeCorpus (SpecTfidf).   *)
(* The corpus statistics below are counted directly from the documents.    *)
(***************************************************************************)
\* The places <<document, position>> of the corpus.
Places(allDocs) ==
    {pl \in (1..Len(allDocs)) \X (1..MaxTokens) : pl[2] <= Len(allDocs[pl[1]].terms)}

SurfaceAt(allDocs, pl) == allDocs[pl[1]].terms[pl[2]]

CorpusSurfaces(allDocs) == {SurfaceAt(allDocs, pl) : pl \in Places(allDocs)}

\* The distinct normalized terms of the corpus.
CorpusTerms(allDocs) ==
    {normalizeTerm(surf) : surf \in CorpusSurfaces(allDocs)} \ {<<>>}

\* The number of documents holding a term that normalizes to t.
DocFreqOf(allDocs, t) ==
    Cardinality({d \in 1..Len(allDocs) :
        \E k \in 1..Len(allDocs[d].terms) : normalizeTerm(allDocs[d].terms[k]) = t})

\* The number of occurrences of a surface string in the corpus.
SurfaceCount(allDocs, surf) ==
    Cardinality({pl \in Places(allDocs) : SurfaceAt(allDocs, pl) = surf})

\* An entry of the result stands for the normalized term its displayed
\* surface normalizes to.
Ranks(top, t) == \E k \in 1..Len(top) : normalizeTerm(top[k].term) = t

\* C1: a normalized term whose document frequency is exactly 1 has no entry
\* in the result with minDocFreq = 2 (given or by default), and has one with
\* minDocFreq = 1 when topK is at least the number of distinct normalized
\* terms.
C1_MinDocFreq ==
    tfidf.pc = "ranked" =>
        \A t \in CorpusTerms(tfidf.allDocs) :
            DocFreqOf(tfidf.allDocs, t) = 1 =>
                /\ tfidf.opts \in {NoOpts, MinDocFreqOpt(2)} => ~Ranks(tfidf.top, t)
                /\ ( /\ tfidf.opts = MinDocFreqOpt(1)
                     /\ tfidf.topK >= Cardinality(CorpusTerms(tfidf.allDocs)) )
                       => Ranks(tfidf.top, t)

\* C1 witness: a ranking with the default minDocFreq of a corpus that holds a
\* term of document frequency 1 beside a term that is ranked.
C1_Witness ==
    /\ tfidf.pc = "ranked"
    /\ tfidf.opts = NoOpts
    /\ tfidf.top # <<>>
    /\ \E t \in CorpusTerms(tfidf.allDocs) : DocFreqOf(tfidf.allDocs, t) = 1

\* surf is a most frequent surface of t, and a shortest one among those.
IsCanonical(allDocs, t, surf) ==
    /\ surf \in CorpusSurfaces(allDocs)
    /\ normalizeTerm(surf) = t
    /\ \A other \in CorpusSurfaces(allDocs) :
          normalizeTerm(other) = t =>
              /\ SurfaceCount(allDocs, other) <= SurfaceCount(allDocs, surf)
              /\ SurfaceCount(allDocs, other) = SurfaceCount(allDocs, surf)
                    => Len(surf) <= Len(other)

\* C6: for every normalized term of the corpus, the surface form chosen by
\* canonicalizeCorpus, and by canonicalForm inside computeTfidfEnhanced,
\* normalizes to the term, has the greatest corpus-wide count among such
\* surfaces, and is of minimal length among those with that count.
C6_CanonicalSurface ==
    /\ tfidf.pc = "canonical" =>
          /\ {tfidf.canonical[k][1] : k \in 1..Len(tfidf.canonical)}
                = CorpusTerms(tfidf.allDocs)
          /\ \A k \in 1..Len(tfidf.canonical) :
                IsCanonical(tfidf.allDocs, tfidf.canonical[k][1], tfidf.canonical[k][2])
    /\ tfidf.pc = "ranked" =>
          \A k \in 1..Len(tfidf.trace.scored) :
              IsCanonical(tfidf.allDocs, tfidf.trace.scored[k].nrm,
                          tfidf.trace.scored[k].term)

\* C6 witness: "tests" and "test" occur equally often, and the shorter one
\* is the canonical form of "test".
C6_Witness ==
    /\ tfidf.pc = "canonical"
    /\ SurfaceCount(tfidf.allDocs, <<"t","e","s","t","s">>) >= 1
    /\ SurfaceCount(tfidf.allDocs, <<"t","e","s","t","s">>)
          = SurfaceCount(tfidf.allDocs, <<"t","e","s","t">>)
    /\ \E k \in 1..Len(tfidf.canonical) :
          tfidf.canonical[k] = << <<"t","e","s","t">>, <<"t","e","s","t">> >>

\* C10: within one corpus, of two score contributions with the same document
\* frequency the one with the greater in-document frequency is strictly
\* greater, and of two with the same in-document frequency the one with the
\* smaller document frequency is strictly greater.
C10_ScoreMonotone ==
    tfidf.pc = "ranked" =>
        \A a, b \in {tfidf.trace.contribs[k] : k \in 1..Len(tfidf.trace.contribs)} :
            /\ (a.df = b.df /\ a.f > b.f) => a.score > b.score
            /\ (a.f = b.f /\ a.df < b.df) => a.score > b.score

\* C10 witness: one term occurs more often in one document than in another,
\* and both documents score it.
C10_Witness ==
    /\ tfidf.pc = "ranked"
    /\ \E a, b \in {tfidf.trace.contribs[k] : k \in 1..Len(tfidf.trace.contribs)} :
          a.t = b.t /\ a.doc # b.doc /\ a.f > b.f


\* C24: the result never shows a term twice: its entries stand for
\* different normalized terms, every displayed surface normalizes to the
\* term it stands for (so that two terms never share a surface), and the
\* list has at most topK entries in non-increasing score order.
C24_DistinctDisplayedTerms ==
    tfidf.pc = "ranked" =>
        /\ \A i, j \in 1..Len(tfidf.top) :
               i # j => /\ tfidf.top[i].term # tfidf.top[j].term
                        /\ normalizeTerm(tfidf.top[i].term)
                              # normalizeTerm(tfidf.top[j].term)
        /\ \A i, j \in 1..Len(tfidf.trace.scored) :
               i # j => /\ tfidf.trace.scored[i].nrm # tfidf.trace.scored[j].nrm
                        /\ tfidf.trace.scored[i].term # tfidf.trace.scored[j].term
        /\ \A k \in 1..Len(tfidf.trace.scored) :
               normalizeTerm(tfidf.trace.scored[k].term) = tfidf.trace.scored[k].nrm
        /\ Len(tfidf.top) <= tfidf.topK
        /\ \A k \in 1..(Len(tfidf.top) - 1) : tfidf.top[k].tfidf >= tfidf.top[k + 1].tfidf

\* C24 witness: a corpus that holds a term and the term it is stemmed to
\* ("atse" gives "ats", "ats" gives "at") has been ranked with both scored.
C24_Witness ==
    /\ tfidf.pc = "ranked"
    /\ Len(tfidf.top) >= 2
    /\ Ranks(tfidf.top, <<"a","t","s">>)
    /\ Ranks(tfidf.top, <<"a","t">>)


(***************************************************************************)
(* analyzeFile and generateReport.                                         *)
(*                                                                         *)
(* A file of the disk is its path and what the extraction functions find   *)
(* in its bytes: the title and description of the HTML head, those of the  *)
(* front matter, the explicit H1 headings, the name field of a JSON file,  *)
(* and the filtered term bag.  A file that cannot be read makes            *)
(* analyzeFile throw.  Of DocumentMetrics the model carries filePath,      *)
(* routeHint, title, description, headings.h1, warnings, tfidfTerms and    *)
(* topKeywords.                                                            *)
(***************************************************************************)
\* A value of type string | undefined.
Undefined == [some |-> FALSE, val |-> <<>>]

Some(s) == [some |-> TRUE, val |-> s]

\* The truthiness of a string | undefined: undefined and "" are falsy.
Truthy(x) == x.some /\ x.val # <<>>

\* a ?? b
Nullish(a, b) == IF a.some THEN a ELSE b

\* The characters of the model's paths, in code-unit order.
CharOrder ==
    <<".", "/", "a","b","c","d","e","f","g","h","i","j","k","l","m",
      "n","o","p","q","r","s","t","u","v","w","x","y","z">>

CharCode(c) == CHOOSE k \in 1..Len(CharOrder) : CharOrder[k] = c

\* a < b for strings: the order Array.prototype.sort() uses by default.
RECURSIVE StringLess(_, _)
StringLess(a, b) ==
    IF b = <<>> THEN FALSE
    ELSE IF a = <<>> THEN TRUE
    ELSE IF a[1] = b[1] THEN StringLess(Tail(a), Tail(b))
    ELSE CharCode(a[1]) < CharCode(b[1])

\* results.sort(), for the distinct paths the walk has pushed.
RECURSIVE SortPaths(_)
SortPaths(paths) ==
    IF paths = {} THEN <<>>
    ELSE LET lo == CHOOSE p \in paths : \A q \in paths \ {p} : StringLess(p, q)
         IN  <<lo>> \o SortPaths(paths \ {lo})

\* path.extname(p).toLowerCase()
extname(p) ==
    LET parts == Split(p, "/")
        base == parts[Len(parts)]
        dots == {k \in 2..Len(base) : base[k] = "."}
    IN  IF dots = {} THEN <<>>
        ELSE toLowerCase(SubSeq(base, CHOOSE k \in dots : \A j \in dots : k >= j, Len(base)))

TEXT_EXTENSIONS == { <<".","m","d">>, <<".","m","d","x">>, <<".","a","s","t","r","o">>, <<".","j","s","o","n">>, <<".","h","t","m","l">> }

\* fs.stat(startDir) succeeds and st.isDirectory(): a directory of the disk
\* is a path some file lies below.
IsDirectory(disk, dir) == \E f \in disk : StartsWith(f.path, dir \o <<"/">>)

\* The directories walk reads on its way from startDir to the file p.
DirsWalked(startDir, p) ==
    {SubSeq(p, 1, k - 1) : k \in {j \in (Len(startDir) + 1)..Len(p) : p[j] = "/"}}

\* The walk with no directory unreadable.
CanRead_Always(unreadable, dirs) == TRUE

\* fs.readdir succeeds for every directory on the way: a directory whose
\* readdir throws is skipped with all that lies below it.
CanRead(unreadable, dirs) == dirs \cap unreadable = {}

\* walkFiles(startDir): the empty list when startDir is no directory, else
\* the files with a text extension found below it, sorted.
walkFiles(disk, unreadable, startDir) ==
    IF ~IsDirectory(disk, startDir) THEN <<>>
    ELSE SortPaths({f.path : f \in {g \in disk :
            /\ StartsWith(g.path, startDir \o <<"/">>)
            /\ CanRead(unreadable, DirsWalked(startDir, g.path))
            /\ extname(g.path) \in TEXT_EXTENSIONS}})

\* extractFrontmatterMeta(originalRaw, ext)
extractFrontmatterMeta(file, ext) ==
    IF ext \in { <<".","m","d">>, <<".","m","d","x">>, <<".","a","s","t","r","o">> }
    THEN [title |-> file.fmTitle, description |-> file.fmDescription]
    ELSE [title |-> Undefined, description |-> Undefined]

\* headings.h1 with the backfill from the JSON name field alone.
BackfillH1_NameOnly(file, ext, finalTitle) ==
    IF file.h1 = <<>> /\ ext = <<".","j","s","o","n">>
    THEN IF file.name.some /\ trim(file.name.val) # <<>>
         THEN <<trim(file.name.val)>> ELSE <<>>
    ELSE file.h1

\* headings.h1 after the backfill from the title or the JSON name field.
BackfillH1(file, ext, finalTitle) ==
    IF file.h1 = <<>> /\ Truthy(finalTitle) THEN <<finalTitle.val>>
    ELSE IF file.h1 = <<>> /\ ext = <<".","j","s","o","n">>
         THEN IF file.name.some /\ trim(file.name.val) # <<>>
              THEN <<trim(file.name.val)>> ELSE <<>>
         ELSE file.h1

\* The warnings, with the length checks also made on absent fields.
Warnings_Unguarded(finalTitle, finalDescription, h1) ==
    (IF ~Truthy(finalTitle) THEN << <<"Missing <title>">> >> ELSE <<>>)
    \o (IF ~Truthy(finalDescription) THEN << <<"Missing meta description">> >> ELSE <<>>)
    \o (IF h1 = <<>> THEN << <<"Missing H1 heading">> >> ELSE <<>>)
    \o (IF Len(finalDescription.val) < 50 \/ Len(finalDescription.val) > 160
        THEN << <<"Description length", Len(finalDescription.val)>> >> ELSE <<>>)
    \o (IF Len(finalTitle.val) < 15 \/ Len(finalTitle.val) > 65
        THEN << <<"Title length", Len(finalTitle.val)>> >> ELSE <<>>)

\* The warnings of analyzeFile, in the order they are pushed.
Warnings(finalTitle, finalDescription, h1) ==
    (IF ~Truthy(finalTitle) THEN << <<"Missing <title>">> >> ELSE <<>>)
    \o (IF ~Truthy(finalDescription) THEN << <<"Missing meta description">> >> ELSE <<>>)
    \o (IF h1 = <<>> THEN << <<"Missing H1 heading">> >> ELSE <<>>)
    \o (IF Truthy(finalDescription)
           /\ (Len(finalDescription.val) < 50 \/ Len(finalDescription.val) > 160)
        THEN << <<"Description length", Len(finalDescription.val)>> >> ELSE <<>>)
    \o (IF Truthy(finalTitle)
           /\ (Len(finalTitle.val) < 15 \/ Len(finalTitle.val) > 65)
        THEN << <<"Title length", Len(finalTitle.val)>> >> ELSE <<>>)

analyzeFile(file, rootDir) ==
    LET ext == extname(file.path)
        isHtmlLike == ext \in { <<".","a","s","t","r","o">>, <<".","h","t","m","l">> }
        title == IF isHtmlLike THEN file.htmlTitle ELSE Undefined
        description == IF isHtmlLike THEN file.htmlDescription ELSE Undefined
        fmMeta == extractFrontmatterMeta(file, ext)
        finalTitle == Nullish(title, fmMeta.title)
        finalDescription == Nullish(description, fmMeta.description)
        h1 == BackfillH1(file, ext, finalTitle)
    IN  [ filePath |-> file.path,
          routeHint |-> guessRouteHint(file.path, rootDir),
          title |-> finalTitle,
          description |-> finalDescription,
          headings |-> [h1 |-> h1],
          warnings |-> Warnings(finalTitle, finalDescription, h1),
          tfidfTerms |-> file.terms,
          topKeywords |-> <<>> ]

buildNgrams(tokens, n) ==
    [k \in 1..Max(0, Len(tokens) - n + 1) |-> Join(SubSeq(tokens, k, k + n - 1), " ")]

\* documents.map(d => d.filePath)
PathsOf(documents) == [k \in 1..Len(documents) |-> documents[k].filePath]

isDataOnlyJson(rootDir, p) ==
    LET rel == pathRelative(rootDir, p)
    IN  IF rel = <<>> THEN FALSE
        ELSE IF ~EndsWith(rel, <<".","j","s","o","n">>) THEN FALSE
        ELSE StartsWith(rel, <<"c","o","m","p","e","t","e","n","c","i","e","s","/">>) \/ StartsWith(rel, <<"t","e","c","h","n","o","l","o","g","i","e","s","/">>)

\* paths.filter(p => !isDataOnlyJson(p))
WithoutDataOnly(rootDir, paths) ==
    SelectSeq(paths, LAMBDA p : ~isDataOnlyJson(rootDir, p))

\* titleMap after the loop over the documents.
RECURSIVE titleMapOf(_, _)
titleMapOf(titleMap, documents) ==
    IF documents = <<>> THEN titleMap
    ELSE LET d == Head(documents)
         IN  IF ~Truthy(d.title) THEN titleMapOf(titleMap, Tail(documents))
             ELSE titleMapOf(MapSet(titleMap, d.title.val,
                                    Append(MapGet(titleMap, d.title.val, <<>>), d.filePath)),
                             Tail(documents))

\* The filter of duplicateTitles, keeping every title.
IsDuplicate_Any(files) == Len(files) > 0

\* .filter(([, files]) => files.length > 1)
IsDuplicate(files) == Len(files) > 1

duplicateTitlesOf(documents) ==
    LET groups == SelectSeq(titleMapOf(<<>>, documents), LAMBDA e : IsDuplicate(e[2]))
    IN  [k \in 1..Len(groups) |-> [title |-> groups[k][1], files |-> groups[k][2]]]

\* documents.map(d => ({ id: d.filePath, terms: d.tfidfTerms })), or its
\* n-grams.
WeightedCorpus(documents, n) ==
    [k \in 1..Len(documents) |->
        [ id |-> documents[k].filePath,
          terms |-> IF n = 1 THEN documents[k].tfidfTerms
                    ELSE buildNgrams(documents[k].tfidfTerms, n) ]]

\* globalIdf with the rare terms kept.
RECURSIVE globalIdfOf_KeepRare(_, _)
globalIdfOf_KeepRare(termDocFreq, docCount) ==
    IF termDocFreq = <<>> THEN <<>>
    ELSE << <<Head(termDocFreq)[1], SmoothedIdf(docCount, Head(termDocFreq)[2])>> >>
         \o globalIdfOf_KeepRare(Tail(termDocFreq), docCount)

\* globalIdf: the idf of every term of termDocFreq that is not rare.
RECURSIVE globalIdfOf(_, _)
globalIdfOf(termDocFreq, docCount) ==
    IF termDocFreq = <<>> THEN <<>>
    ELSE LET t == Head(termDocFreq)[1]
             df == Head(termDocFreq)[2]
             rest == globalIdfOf(Tail(termDocFreq), docCount)
         IN  IF SkipRare(df, 2) THEN rest
             ELSE << <<t, SmoothedIdf(docCount, df)>> >> \o rest

\* scored, for the tf entries of one document.
RECURSIVE ScoredKeywords(_, _, _)
ScoredKeywords(tf, globalIdf, canonical) ==
    IF tf = <<>> THEN <<>>
    ELSE LET t == Head(tf)[1]
             f == Head(tf)[2]
             idf == MapGet(globalIdf, t, 0)
             rest == ScoredKeywords(Tail(tf), globalIdf, canonical)
         IN  IF idf = 0 THEN rest
             ELSE <<[term |-> MapGet(canonical, t, t), tfidf |-> SublinearTf(f) * idf]>> \o rest

\* d.topKeywords
topKeywordsOf(terms, globalIdf, canonical) ==
    Slice(SortByScore(ScoredKeywords(TermFreqOf(terms), globalIdf, canonical)), 12)

\* The documents of the report: every document with its topKeywords.
WithTopKeywords(documents) ==
    LET weightedUnigrams == WeightedCorpus(documents, 1)
        globalIdf == globalIdfOf(TermDocFreqOf(<<>>, weightedUnigrams), Len(weightedUnigrams))
        canonical == canonicalizeCorpus(weightedUnigrams)
    IN  [k \in 1..Len(documents) |->
            [documents[k] EXCEPT !.topKeywords =
                topKeywordsOf(documents[k].tfidfTerms, globalIdf, canonical)]]

\* The rankings with minDocFreq 1.
rankingsOf_MinDocFreq1(documents) ==
    [ top \in {"topUnigrams", "topBigrams", "topTrigrams"} |->
        LET n == CASE top = "topUnigrams" -> 1 [] top = "topBigrams" -> 2 [] OTHER -> 3
            topK == CASE top = "topUnigrams" -> 40 [] top = "topBigrams" -> 30 [] OTHER -> 20
        IN  computeTfidfEnhanced(WeightedCorpus(documents, n), topK, MinDocFreqOpt(1)) ]

\* topUnigrams, topBigrams and topTrigrams: the n-grams of the weighted bags
\* ranked with topK 40, 30 and 20.
rankingsOf(documents) ==
    [ top \in {"topUnigrams", "topBigrams", "topTrigrams"} |->
        LET n == CASE top = "topUnigrams" -> 1 [] top = "topBigrams" -> 2 [] OTHER -> 3
            topK == CASE top = "topUnigrams" -> 40 [] top = "topBigrams" -> 30 [] OTHER -> 20
        IN  computeTfidfEnhanced(WeightedCorpus(documents, n), topK, MinDocFreqOpt(2)) ]

\* summary
summaryOf(documents, rootDir) ==
    rankingsOf(documents) @@
    [ totalDocuments |-> Len(documents),
      pagesMissingTitle |->
          WithoutDataOnly(rootDir, PathsOf(SelectSeq(documents, LAMBDA d : ~Truthy(d.title)))),
      pagesMissingDescription |->
          WithoutDataOnly(rootDir, PathsOf(SelectSeq(documents, LAMBDA d : ~Truthy(d.description)))),
      pagesMissingH1 |->
          WithoutDataOnly(rootDir, PathsOf(SelectSeq(documents, LAMBDA d : d.headings.h1 = <<>>))),
      duplicateTitles |-> duplicateTitlesOf(documents) ]

(***************************************************************************)
(* Specification SpecReport: generateReport over every disk of at most     *)
(* MaxFiles files of the catalogue below, from the default root and from   *)
(* the content directory as root, under every order in which the analyses  *)
(* of the worker pool settle.  A step is one run of JavaScript between two *)
(* awaits.                                                                 *)
(***************************************************************************)
concurrency == 8

\* path.resolve(cwd, "./src"), the default root, and the root of
\* --root ./src/content.
DefaultRoot == <<"/","s","r","c">>

ContentRoot == <<"/","s","r","c","/","c","o","n","t","e","n","t">>

\* A root that does not exist, and a root that is a file.
MissingRoot == <<"/","n","o","n","e">>

FileRoot == <<"/","s","r","c","/","p","a","g","e","s","/","i","n","d","e","x",".","a","s","t","r","o">>

Roots == {DefaultRoot, ContentRoot, MissingRoot, FileRoot}

\* The directories whose readdir fails: none, or the writing directory.
UnreadableChoices == { {}, {<<"/","s","r","c","/","c","o","n","t","e","n","t","/","w","r","i","t","i","n","g">>} }

File(path, htmlTitle, htmlDescription, fmTitle, fmDescription, h1, name, readable, terms) ==
    [ path |-> path, htmlTitle |-> htmlTitle, htmlDescription |-> htmlDescription,
      fmTitle |-> fmTitle, fmDescription |-> fmDescription, h1 |-> h1,
      name |-> name, readable |-> readable, terms |-> terms ]

HomeTitle == <<"h","o","m","e"," ","o","f"," ","t","h","e"," ","s","i","t","e">>

PostTitle == <<"p","o","s","t">>

LongDescription == <<"a"," ","d","e","s","c","r","i","p","t","i","o","n"," ","o","f"," ","t","h","e"," ","p","a","g","e"," ","t","h","a","t"," ","i","s"," ","m","o","r","e"," ","t","h","a","n"," ","f","i","f","t","y"," ","c","h","a","r","a","c","t","e","r","s"," ","l","o","n","g">>

ShortDescription == <<"s","h","o","r","t">>

\* The files a disk is made of.  Two entries with one path are two possible
\* contents of that file.
Catalogue ==
    { File(<<"/","s","r","c","/","c","o","n","t","e","n","t","/","c","o","m","p","e","t","e","n","c","i","e","s","/","a",".","j","s","o","n">>, Undefined, Undefined, Undefined, Undefined,
           <<>>, Undefined, TRUE, << <<"t","e","s","t","s">> >>),
      File(<<"/","s","r","c","/","c","o","n","t","e","n","t","/","t","e","c","h","n","o","l","o","g","i","e","s","/","b",".","j","s","o","n">>, Undefined, Undefined, Undefined, Undefined,
           <<>>, Some(<<" ","b"," ">>), TRUE, << <<"t","e","s","t">>, <<"a","t","s">> >>),
      File(<<"/","s","r","c","/","c","o","n","t","e","n","t","/","c","o","m","p","e","t","e","n","c","i","e","s","/","c",".","m","d">>, Undefined, Undefined, Undefined, Undefined,
           <<>>, Undefined, TRUE, <<>>),
      File(<<"/","s","r","c","/","c","o","n","t","e","n","t","/","s","i","t","e",".","j","s","o","n">>, Undefined, Undefined, Undefined, Undefined,
           <<>>, Undefined, TRUE, << <<"a","t","s","e">> >>),
      File(<<"/","s","r","c","/","c","o","n","t","e","n","t","/","w","r","i","t","i","n","g","/","x",".","m","d">>, Undefined, Undefined, Some(<<>>), Undefined,
           <<>>, Undefined, TRUE, << <<"t","e","s","t","s">>, <<"t","e","s","t">> >>),
      File(<<"/","s","r","c","/","c","o","n","t","e","n","t","/","w","r","i","t","i","n","g","/","y",".","m","d">>, Undefined, Undefined, Some(<<>>), Some(ShortDescription),
           << PostTitle >>, Undefined, TRUE, << <<"t","e","s","t">> >>),
      File(<<"/","s","r","c","/","c","o","n","t","e","n","t","/","w","r","i","t","i","n","g","/","y",".","m","d">>, Some(HomeTitle), Undefined, Some(PostTitle), Some(LongDescription),
           <<>>, Undefined, TRUE, << <<"a","t","s">>, <<"a","t","s">> >>),
      File(<<"/","s","r","c","/","c","o","n","t","e","n","t","/","w","r","i","t","i","n","g","/","z",".","m","d","x">>, Undefined, Undefined, Undefined, Undefined,
           <<>>, Undefined, FALSE, <<>>),
      File(<<"/","s","r","c","/","p","a","g","e","s","/","i","n","d","e","x",".","a","s","t","r","o">>, Some(HomeTitle), Some(LongDescription), Some(PostTitle), Undefined,
           <<>>, Undefined, TRUE, << <<"t","e","s","t","s">>, <<"t","e","s","t","s">>, <<"t","e","s","t">> >>),
      File(<<"/","s","r","c","/","p","a","g","e","s","/","a","b","o","u","t",".","a","s","t","r","o">>, Undefined, Undefined, Some(HomeTitle), Some(ShortDescription),
           <<>>, Undefined, TRUE, << <<"a","t","s","e">>, <<"t","e","s","t">> >>),
      File(<<"/","s","r","c","/","p","a","g","e","s","/","e","m","p","t","y",".","h","t","m","l">>, Undefined, Undefined, Undefined, Undefined,
           <<>>, Undefined, TRUE, <<>>),
      File(<<"/","s","r","c","/","p","a","g","e","s","/","o","g",".","p","n","g">>, Undefined, Undefined, Undefined, Undefined,
           <<>>, Undefined, TRUE, <<>>) }

\* The disks: at most MaxFiles files, no path twice.
Disks ==
    {disk \in SUBSET Catalogue :
        /\ Cardinality(disk) <= MaxFiles
        /\ \A f, g \in disk : f.path = g.path => f = g}

FileAt(disk, p) == CHOOSE f \in disk : f.path = p

ReportInit ==
    /\ \E rootDir \in Roots, disk \in Disks, unreadable \in UnreadableChoices :
          report = [ pc |-> "start", rootDir |-> rootDir, disk |-> disk,
                     unreadable |-> unreadable,
                     files |-> <<>>, i |-> 0, workers |-> <<>>,
                     documents |-> <<>>, failed |-> <<>>, summary |-> <<>>,
                     out |-> "", logged |-> <<>>, exitCode |-> -1 ]
    /\ norm = Idle /\ route = Idle /\ read = Idle /\ tfidf = Idle /\ link = Idle /\ lex = Idle /\ pool = Idle

\* A worker that takes the file at i and leaves i as it is.
NextClaim_NoIncrement(r, w) ==
    IF r.i < Len(r.files)
    THEN [r EXCEPT !.workers[w] = [pc |-> "await", idx |-> r.i + 1]]
    ELSE [r EXCEPT !.workers[w] = [pc |-> "done", idx |-> 0]]

\* const idx = i++ of every worker of worker(): the worker that finds
\* i < files.length takes the next file and waits for its analysis, the
\* other one returns.
NextClaim(r, w) ==
    IF r.i < Len(r.files)
    THEN [r EXCEPT !.i = @ + 1, !.workers[w] = [pc |-> "await", idx |-> r.i + 1]]
    ELSE [r EXCEPT !.workers[w] = [pc |-> "done", idx |-> 0]]

\* The workers started by Array.from({ length }, () => worker()), each run
\* up to its first await.
RECURSIVE StartWorkers(_, _, _)
StartWorkers(r, w, n) ==
    IF w > n THEN r ELSE StartWorkers(NextClaim(r, w), w + 1, n)

\* A pool with one worker for every file.
WorkerCount_OnePerFile(length) == length

\* Math.min(concurrency, files.length)
WorkerCount(length) == IF concurrency < length THEN concurrency ELSE length

\* generateReport up to await Promise.all: the walk, and the start of the
\* workers.
ReportStart ==
    /\ report.pc = "start"
    /\ LET files == walkFiles(report.disk, report.unreadable, report.rootDir)
           n == WorkerCount(Len(files))
           r == [report EXCEPT !.pc = "pool", !.files = files,
                               !.workers = [w \in 1..n |-> [pc |-> "new", idx |-> 0]]]
       IN  report' = StartWorkers(r, 1, n)
    /\ UNCHANGED exceptReport

\* await analyzeFile(f, rootDir) of worker w resolves: the document is
\* pushed, and the worker goes round its loop.
AnalyzeResolve(w) ==
    /\ report.pc = "pool"
    /\ w \in 1..Len(report.workers)
    /\ report.workers[w].pc = "await"
    /\ LET f == FileAt(report.disk, report.files[report.workers[w].idx])
       IN  /\ f.readable
           /\ report' = NextClaim([report EXCEPT !.documents =
                                      Append(@, analyzeFile(f, report.rootDir))], w)
    /\ UNCHANGED exceptReport

\* A failed analysis that ends the whole pool, as an uncaught rejection
\* would.
Rejected_Abort(r, w, f) ==
    [r EXCEPT !.failed = Append(@, f.path), !.i = Len(r.files),
              !.workers = [v \in 1..Len(r.workers) |-> [pc |-> "done", idx |-> 0]]]

\* catch (err) { console.error(...) }: the failure is logged and the worker
\* goes round its loop.
Rejected(r, w, f) == NextClaim([r EXCEPT !.failed = Append(@, f.path)], w)

\* await analyzeFile(f, rootDir) of worker w rejects: the error is logged,
\* and the worker goes round its loop.
AnalyzeReject(w) ==
    /\ report.pc = "pool"
    /\ w \in 1..Len(report.workers)
    /\ report.workers[w].pc = "await"
    /\ LET f == FileAt(report.disk, report.files[report.workers[w].idx])
       IN  /\ ~f.readable
           /\ report' = Rejected(report, w, f)
    /\ UNCHANGED exceptReport

\* A Promise.all that is fulfilled by the first worker that returns.
AllWorkersDone_Any(workers) ==
    workers = <<>> \/ \E w \in 1..Len(workers) : workers[w].pc = "done"

\* await Promise.all(...) is fulfilled: every worker has returned.
AllWorkersDone(workers) == \A w \in 1..Len(workers) : workers[w].pc = "done"

\* generateReport after await Promise.all, to its return.
ReportAggregate ==
    /\ report.pc = "pool"
    /\ AllWorkersDone(report.workers)
    /\ report' = [report EXCEPT !.pc = "done",
                                !.summary = summaryOf(report.documents, report.rootDir),
                                !.documents = WithTopKeywords(report.documents)]
    /\ UNCHANGED exceptReport

\* main with an outFile: fs.mkdir (its failure is swallowed) and
\* fs.writeFile of the JSON report, which is not in a try block: when it
\* rejects, main rejects, and main().catch logs the error and calls
\* process.exit(1).
MainWriteJson(ok) ==
    /\ report.pc = "done"
    /\ report' = IF ok THEN [report EXCEPT !.pc = "json", !.out = "file"]
                  ELSE [report EXCEPT !.pc = "exit", !.out = "file",
                                      !.logged = Append(@, "json"), !.exitCode = 1]
    /\ UNCHANGED exceptReport

\* main with --stdout: process.stdout.write of the JSON report.
MainStdout ==
    /\ report.pc = "done"
    /\ report' = [report EXCEPT !.pc = "json", !.out = "stdout"]
    /\ UNCHANGED exceptReport

\* The markdown summary, written in a try block: its failure is logged.
MainWriteMarkdown(ok) ==
    /\ report.pc = "json"
    /\ report' = IF ok THEN [report EXCEPT !.pc = "markdown"]
                  ELSE [report EXCEPT !.pc = "markdown", !.logged = Append(@, "markdown")]
    /\ UNCHANGED exceptReport

\* printHumanSummary(report), and the process ends.
MainPrintSummary ==
    /\ report.pc = "markdown"
    /\ report' = [report EXCEPT !.pc = "exit", !.exitCode = 0]
    /\ UNCHANGED exceptReport

ReportNext ==
    \/ ReportStart
    \/ \E w \in 1..concurrency : AnalyzeResolve(w)
    \/ \E w \in 1..concurrency : AnalyzeReject(w)
    \/ ReportAggregate
    \/ \E ok \in BOOLEAN : MainWriteJson(ok)
    \/ MainStdout
    \/ \E ok \in BOOLEAN : MainWriteMarkdown(ok)
    \/ MainPrintSummary

SpecReport == ReportInit /\ [][ReportNext]_vars

(***************************************************************************)
(* Claims about analyzeFile and generateReport (SpecReport).               *)
(***************************************************************************)
\* The elements of a sequence.
Range(s) == {s[k] : k \in 1..Len(s)}

\* A document resolves no title, no description and no H1: an absent or
\* empty string is no title, as analyzeFile tests it.
NoMetadata(d) == ~Truthy(d.title) /\ ~Truthy(d.description) /\ d.headings.h1 = <<>>

MissingMetadataWarnings ==
    << <<"Missing <title>">>, <<"Missing meta description">>, <<"Missing H1 heading">> >>

\* The path has a directory named competencies or technologies above the
\* file, and the file is a .json file.
DataOnlyRecord(p) ==
    LET parts == Split(p, "/")
    IN  /\ EndsWith(p, <<".","j","s","o","n">>)
        /\ \E k \in 1..(Len(parts) - 1) :
              parts[k] \in { <<"c","o","m","p","e","t","e","n","c","i","e","s">>, <<"t","e","c","h","n","o","l","o","g","i","e","s">> }

\* C2: for every root (the default root included, where the data
\* directories sit below content/), a .json document under a competencies/
\* or technologies/ directory with no title, no description and no H1 is in
\* none of pagesMissingTitle, pagesMissingDescription and pagesMissingH1,
\* and its own warnings are the three missing-metadata warnings.
C2_DataOnlyExcluded ==
    report.pc = "done" =>
        \A d \in Range(report.documents) :
            (DataOnlyRecord(d.filePath) /\ NoMetadata(d)) =>
                /\ d.filePath \notin Range(report.summary.pagesMissingTitle)
                /\ d.filePath \notin Range(report.summary.pagesMissingDescription)
                /\ d.filePath \notin Range(report.summary.pagesMissingH1)
                /\ d.warnings = MissingMetadataWarnings

\* C3: every document analyzeFile returns that resolves no title, no
\* description and no H1 has exactly the three warnings missing title,
\* missing description, missing H1, in this order, and no length warning.
C3_ThreeWarnings ==
    report.pc \in {"pool", "done"} =>
        \A d \in Range(report.documents) :
            NoMetadata(d) => d.warnings = MissingMetadataWarnings

\* C3 witness: analyzeFile has returned a document without metadata whose
\* title is absent, and one whose front matter title is the empty string.
C3_Witness ==
    /\ report.pc \in {"pool", "done"}
    /\ \E d \in Range(report.documents) : NoMetadata(d) /\ ~d.title.some
    /\ \E d \in Range(report.documents) : NoMetadata(d) /\ d.title.some

\* The paths of the documents that resolve the title t.
Carriers(documents, t) ==
    {d.filePath : d \in {e \in Range(documents) : Truthy(e.title) /\ e.title.val = t}}

\* C4: duplicateTitles holds exactly one group for each resolved title (a
\* non-empty title string; an empty title is a missing title) that two or
\* more documents carry, the files of the group are exactly the paths of
\* these documents, each once, and no group stands for a title that a
\* single document carries.
C4_DuplicateTitles ==
    report.pc = "done" =>
        LET docs == report.documents
            groups == report.summary.duplicateTitles
            titles == {d.title.val : d \in {e \in Range(docs) : Truthy(e.title)}}
        IN  /\ \A t \in titles :
                  Cardinality(Carriers(docs, t)) >= 2 =>
                      Cardinality({k \in 1..Len(groups) : groups[k].title = t}) = 1
            /\ \A k \in 1..Len(groups) :
                  /\ Range(groups[k].files) = Carriers(docs, groups[k].title)
                  /\ Len(groups[k].files) = Cardinality(Carriers(docs, groups[k].title))
                  /\ Len(groups[k].files) >= 2

\* C4 witness: two documents share a title, a third one has a title of its
\* own, and the report holds the one group of the two.
C4_Witness ==
    /\ report.pc = "done"
    /\ Len(report.summary.duplicateTitles) = 1
    /\ Len(report.summary.duplicateTitles[1].files) = 2
    /\ \E d \in Range(report.documents) :
          Truthy(d.title) /\ d.title.val # report.summary.duplicateTitles[1].title

(***************************************************************************)
(* isExternal, and new URL(href, base) as far as its host goes.            *)
(***************************************************************************)
\* The base of new URL(href, "http://example.com").
BaseScheme == <<"h","t","t","p">>

BaseHost == <<"e","x","a","m","p","l","e",".","c","o","m">>

\* The schemes the URL parser treats as special (file apart).
SpecialSchemes == { <<"h","t","t","p">>, <<"h","t","t","p","s">>, <<"f","t","p">>, <<"w","s">>, <<"w","s","s">> }

SchemeChars ==
    LowerLetters \cup {UpperSeq[k] : k \in 1..26} \cup Digits \cup {"+", "-", "."}

\* The place of the ":" that ends the scheme of href; 0 when href has none.
SchemeEnd(href) ==
    LET at == {k \in 2..Len(href) :
                  /\ href[k] = ":"
                  /\ LowerChar(href[1]) \in LowerLetters
                  /\ \A j \in 1..(k - 1) : href[j] \in SchemeChars}
    IN  IF at = {} THEN 0 ELSE CHOOSE k \in at : \A j \in at : k <= j

\* The input without its leading slashes.
RECURSIVE SkipSlashes(_)
SkipSlashes(s) ==
    IF s # <<>> /\ s[1] \in {"/", "\\"} THEN SkipSlashes(Tail(s)) ELSE s

\* The host (with its port) an authority starts with, lowercased.
AuthorityHost(s) ==
    LET stops == {k \in 1..Len(s) : s[k] \in {"/", "?", "#"}}
        end == IF stops = {} THEN Len(s)
               ELSE (CHOOSE k \in stops : \A j \in stops : k <= j) - 1
    IN  toLowerCase(SubSeq(s, 1, end))

UrlFailure == [ok |-> FALSE, host |-> <<>>]

Url(host) == [ok |-> TRUE, host |-> host]

\* new URL(href, "http://example.com"): whether it parses, and u.host.
ParseUrl(href) ==
    LET k == SchemeEnd(href)
        scheme == toLowerCase(SubSeq(href, 1, k - 1))
        rest == SubSeq(href, k + 1, Len(href))
    IN  IF k = 0
        THEN IF StartsWith(href, <<"/","/">>)
             THEN IF AuthorityHost(SkipSlashes(href)) = <<>> THEN UrlFailure
                  ELSE Url(AuthorityHost(SkipSlashes(href)))
             ELSE Url(BaseHost)
        ELSE IF scheme \in SpecialSchemes
             THEN IF scheme = BaseScheme /\ ~StartsWith(rest, <<"/","/">>)
                  THEN Url(BaseHost)
                  ELSE IF AuthorityHost(SkipSlashes(rest)) = <<>> THEN UrlFailure
                       ELSE Url(AuthorityHost(SkipSlashes(rest)))
             ELSE IF StartsWith(rest, <<"/","/">>)
                  THEN Url(AuthorityHost(SubSeq(rest, 3, Len(rest))))
                  ELSE Url(<<>>)

\* ["example.com"]
OwnHosts == { <<"e","x","a","m","p","l","e",".","c","o","m">> }

isExternal(href) ==
    IF href = <<>> THEN FALSE
    ELSE IF href[1] \in {"/", "#", "."} THEN FALSE
    ELSE LET u == ParseUrl(href)
         IN  IF ~u.ok THEN FALSE
             ELSE u.host # <<>> /\ u.host \notin OwnHosts

(***************************************************************************)
(* Specification SpecLink: isExternal applied to every href made of one of *)
(* the beginnings, hosts and endings below.                                *)
(***************************************************************************)
\* The beginnings of an absolute href with an authority.
AbsoluteStarts == { <<"h","t","t","p",":","/","/">>, <<"h","t","t","p","s",":","/","/">>, <<"H","T","T","P","S",":","/","/">> }

HrefStarts == AbsoluteStarts \cup { <<>>, <<"m","a","i","l","t","o",":">>, <<"/","/">>, <<"/">>, <<"#">>, <<".","/">>, <<".",".","/">> }

HrefHosts == { <<>>, <<"e","x","a","m","p","l","e",".","c","o","m">>, <<"k","e","y","r","x","n","g",".","x","y","z">>, <<"K","e","y","r","x","n","g",".","x","y","z">>, <<"o","t","h","e","r",".","o","r","g">>, <<"a">> }

HrefEnds == { <<>>, <<"/","a">>, <<"#","a">>, <<"?","a">> }

\* The host of the audited site (site: 'https://keyrxng.xyz').
SiteHost == <<"k","e","y","r","x","n","g",".","x","y","z">>

LinkInit ==
    /\ link = [pc |-> "start", start |-> <<>>, host |-> <<>>, end |-> <<>>,
               href |-> <<>>, external |-> FALSE]
    /\ norm = Idle /\ route = Idle /\ read = Idle /\ tfidf = Idle
    /\ report = Idle /\ lex = Idle /\ pool = Idle

\* The document holds a link whose href begins with s.
LinkStart(s) ==
    /\ link.pc = "start"
    /\ link' = [link EXCEPT !.pc = "host", !.start = s, !.href = s]
    /\ UNCHANGED exceptLink

LinkHost(h) ==
    /\ link.pc = "host"
    /\ link' = [link EXCEPT !.pc = "end", !.host = h, !.href = @ \o h]
    /\ UNCHANGED exceptLink

\* After a scheme and "//" the parser skips further slashes, so an ending
\* that starts with "/" is added only behind a host.
LinkEnd(e) ==
    /\ link.pc = "end"
    /\ (link.start \in AbsoluteStarts /\ link.host = <<>>) => ~StartsWith(e, <<"/">>)
    /\ link' = [link EXCEPT !.pc = "href", !.end = e, !.href = @ \o e]
    /\ UNCHANGED exceptLink

\* extractLinks calls isExternal(url).
LinkCall ==
    /\ link.pc = "href"
    /\ link' = [link EXCEPT !.pc = "done", !.external = isExternal(link.href)]
    /\ UNCHANGED exceptLink

LinkNext ==
    \/ \E s \in HrefStarts : LinkStart(s)
    \/ \E h \in HrefHosts : LinkHost(h)
    \/ \E e \in HrefEnds : LinkEnd(e)
    \/ LinkCall

SpecLink == LinkInit /\ [][LinkNext]_vars

\* The href is an absolute URL with a host: a scheme, "//" and a non-empty
\* host.
AbsoluteWithHost == link.start \in AbsoluteStarts /\ link.host # <<>>

\* C11: isExternal(href) is true if and only if href parses as an absolute
\* URL with a non-empty host that differs from the audited site's own host;
\* an absolute link to the site's own host is internal, and every href that
\* starts with "/", "#" or "." is internal.
C11_ExternalIffForeignHost ==
    link.pc = "done" =>
        /\ link.external <=> (AbsoluteWithHost /\ toLowerCase(link.host) # SiteHost)
        /\ (AbsoluteWithHost /\ toLowerCase(link.host) = SiteHost) => ~link.external
        /\ (link.href # <<>> /\ link.href[1] \in {"/", "#", "."}) => ~link.external

\* C12: under every order in which the analyses of the worker pool complete,
\* the documents of the report are in ascending order of file path.
C12_DocumentsSortedByPath ==
    report.pc = "done" =>
        \A j, k \in 1..Len(report.documents) :
            j < k => StringLess(report.documents[j].filePath, report.documents[k].filePath)

\* The documents in ascending order of file path: the documents list of the
\* run in which the analyses complete in the order of the files.
InPathOrder(documents) ==
    LET paths == SortPaths({d.filePath : d \in Range(documents)})
    IN  [k \in 1..Len(paths) |-> CHOOSE d \in Range(documents) : d.filePath = paths[k]]

KeywordsByPath(documents) ==
    {<<d.filePath, d.topKeywords>> : d \in Range(documents)}

\* C13: the summary and the per-document topKeywords of a run are those of
\* the run over the same files whose analyses complete in path order: the
\* rankings (terms, surface forms and order), the missing-metadata lists and
\* the duplicate-title groups do not depend on the order of completion.
C13_OrderIndependent ==
    report.pc = "done" =>
        /\ report.summary = summaryOf(InPathOrder(report.documents), report.rootDir)
        /\ KeywordsByPath(report.documents)
              = KeywordsByPath(WithTopKeywords(InPathOrder(report.documents)))

\* The files walkFiles returned whose analysis succeeds.
ReadablePaths == {p \in Range(report.files) : FileAt(report.disk, p).readable}

\* C14: a failed analysis is caught and leaves out that file alone: in the
\* report the documents are exactly the files whose analysis succeeded, each
\* once, the failed files are exactly the others, and the summary counts
\* these documents; and the run is never stuck after a failure: while the
\* pool runs, every worker either waits for the analysis of a file or has
\* returned, so that the report can be produced.
C14_FailureLeavesOutOneFile ==
    /\ report.pc = "done" =>
          /\ {d.filePath : d \in Range(report.documents)} = ReadablePaths
          /\ Len(report.documents) = Cardinality(ReadablePaths)
          /\ Range(report.failed) = Range(report.files) \ ReadablePaths
          /\ report.summary.totalDocuments = Len(report.documents)
    /\ report.pc = "pool" =>
          \A w \in 1..Len(report.workers) :
              \/ report.workers[w].pc = "done"
              \/ /\ report.workers[w].pc = "await"
                 /\ report.workers[w].idx \in 1..Len(report.files)

\* C14 witness: a report of a run in which one analysis failed and others
\* succeeded.
C14_Witness ==
    /\ report.pc = "done"
    /\ Len(report.failed) = 1
    /\ Len(report.documents) >= 2

\* No analysis is in flight and every file has been added or has failed.
AllSettled(r) ==
    /\ \A w \in 1..Len(r.workers) : r.workers[w].pc # "await"
    /\ {d.filePath : d \in Range(r.documents)} \cup Range(r.failed) = Range(r.files)

\* C15: the step that computes the summary and the keywords is taken only
\* when every file walkFiles returned has been added to documents or has
\* failed and no worker is analysing a file, and it reads the documents
\* list of that moment.
C15_Barrier ==
    [][(report.pc = "pool" /\ report'.pc = "done") =>
           /\ AllSettled(report)
           /\ report'.summary = summaryOf(report.documents, report.rootDir)
           /\ Len(report'.documents) = Len(report.documents)]_vars

\* C15 witness: a report over several files, one of them failed.
C15_Witness ==
    /\ report.pc = "done"
    /\ Len(report.files) >= 3
    /\ report.failed # <<>>
    /\ report.summary.totalDocuments = Len(report.files) - Len(report.failed)

\* The root is a directory of the disk: some file lies below it.
RootIsDirectory == \E f \in report.disk : StartsWith(f.path, report.rootDir \o <<"/">>)

\* The file lies below a directory that cannot be read.
BelowUnreadable(f) ==
    \E dir \in report.unreadable : StartsWith(f.path, dir \o <<"/">>)

\* C16: when the root does not exist or is not a directory, walkFiles
\* returns the empty list, no worker is started, nothing fails, and the
\* report has zero documents, empty rankings and empty missing-metadata and
\* duplicate lists; the files below an unreadable sub-directory are skipped
\* and every other text file below the root is still found.
C16_MissingRootIsEmptyRun ==
    report.pc # "start" =>
        /\ ~RootIsDirectory =>
              /\ report.files = <<>> /\ report.workers = <<>> /\ report.failed = <<>>
              /\ report.documents = <<>>
              /\ report.pc \notin {"pool", "exit"} =>
                    /\ report.summary.totalDocuments = 0
                    /\ report.summary.topUnigrams = <<>>
                    /\ report.summary.topBigrams = <<>>
                    /\ report.summary.topTrigrams = <<>>
                    /\ report.summary.pagesMissingTitle = <<>>
                    /\ report.summary.pagesMissingDescription = <<>>
                    /\ report.summary.pagesMissingH1 = <<>>
                    /\ report.summary.duplicateTitles = <<>>
        /\ \A f \in report.disk :
              (StartsWith(f.path, report.rootDir \o <<"/">>) /\ extname(f.path) \in TEXT_EXTENSIONS)
                  => (f.path \in Range(report.files) <=> ~BelowUnreadable(f))

\* C16 witness: generateReport has returned a report for a root that is a
\* file of a disk with other files.
C16_Witness ==
    /\ report.pc = "done"
    /\ report.rootDir \in {f.path : f \in report.disk}
    /\ Cardinality(report.disk) >= 2
    /\ report.summary.totalDocuments = 0

\* C17: once generateReport has started analysing files, no failure makes
\* main exit with a non-zero status: not the failure of a file's analysis,
\* not a failure writing the JSON report, not a failure writing the markdown
\* summary.
C17_NoLateFailureIsFatal ==
    (report.pc = "exit" /\ report.files # <<>>) => report.exitCode = 0

\* The warning texts about a missing title and a missing H1.
MissingTitle == <<"Missing <title>">>

MissingH1 == <<"Missing H1 heading">>

\* C19: in every document analyzeFile returned, a resolved title (a
\* non-empty string) comes with a non-empty H1 list, which is the list of
\* the title alone when the file has no H1 of its own; so the warning about
\* a missing H1 only occurs together with the one about a missing title.
C19_TitleBackfillsH1 ==
    \A d \in Range(report.documents) :
        /\ Truthy(d.title) => d.headings.h1 # <<>>
        /\ (Truthy(d.title) /\ FileAt(report.disk, d.filePath).h1 = <<>>) =>
               d.headings.h1 = <<d.title.val>>
        /\ MissingH1 \in Range(d.warnings) => MissingTitle \in Range(d.warnings)

\* C19 witness: the documents hold one with a title and no H1 of its own,
\* and one without a title that is warned about for both.
C19_Witness ==
    /\ \E d \in Range(report.documents) :
           /\ Truthy(d.title)
           /\ FileAt(report.disk, d.filePath).h1 = <<>>
           /\ d.headings.h1 = <<d.title.val>>
    /\ \E d \in Range(report.documents) :
           /\ MissingH1 \in Range(d.warnings)
           /\ MissingTitle \in Range(d.warnings)

(***************************************************************************)
(* toWords and filterTerms: the tokens of a document and its weighted      *)
(* TF-IDF terms.                                                           *)
(***************************************************************************)

\* The words the tokenizer drops besides the ones it drops by shape.
EXTRA_STOPWORDS ==
    { <<"a">>, <<"a","b","o","u","t">>, <<"a","b","o","v","e">>, <<"a","f","t","e","r">>,
      <<"a","g","a","i","n">>, <<"a","g","a","i","n","s","t">>, <<"a","l","l">>,
      <<"a","m">>, <<"a","n">>, <<"a","n","d">>, <<"a","n","y">>, <<"a","r","e">>,
      <<"a","s">>, <<"a","t">>, <<"b","e">>, <<"b","e","c","a","u","s","e">>,
      <<"b","e","e","n">>, <<"b","e","f","o","r","e">>, <<"b","e","i","n","g">>,
      <<"b","e","l","o","w">>, <<"b","e","t","w","e","e","n">>, <<"b","o","t","h">>,
      <<"b","u","t">>, <<"b","y">>, <<"c","o","u","l","d">>, <<"d","i","d">>,
      <<"d","o">>, <<"d","o","e","s">>, <<"d","o","i","n","g">>, <<"d","o","w","n">>,
      <<"d","u","r","i","n","g">>, <<"e","a","c","h">>, <<"f","e","w">>,
      <<"f","o","r">>, <<"f","r","o","m">>, <<"f","u","r","t","h","e","r">>,
      <<"h","a","d">>, <<"h","a","s">>, <<"h","a","v","e">>, <<"h","a","v","i","n","g">>,
      <<"h","e">>, <<"h","e","r">>, <<"h","e","r","e">>, <<"h","e","r","s">>,
      <<"h","e","r","s","e","l","f">>, <<"h","i","m">>, <<"h","i","m","s","e","l","f">>,
      <<"h","i","s">>, <<"h","o","w">>, <<"i">>, <<"i","f">>, <<"i","n">>,
      <<"i","n","t","o">>, <<"i","s">>, <<"i","t">>, <<"i","t","s">>,
      <<"i","t","s","e","l","f">>, <<"j","u","s","t">>, <<"m","e">>,
      <<"m","o","r","e">>, <<"m","o","s","t">>, <<"m","y">>, <<"m","y","s","e","l","f">>,
      <<"n","o">>, <<"n","o","r">>, <<"n","o","t">>, <<"n","o","w">>,
      <<"o","f">>, <<"o","f","f">>, <<"o","n">>, <<"o","n","c","e">>,
      <<"o","n","l","y">>, <<"o","r">>, <<"o","t","h","e","r">>, <<"o","u","r">>,
      <<"o","u","r","s">>, <<"o","u","r","s","e","l","v","e","s">>,
      <<"o","u","t">>, <<"o","v","e","r">>, <<"o","w","n">>, <<"s","a","m","e">>,
      <<"s","h","e">>, <<"s","h","o","u","l","d">>, <<"s","o">>, <<"s","o","m","e">>,
      <<"s","u","c","h">>, <<"t","h","a","n">>, <<"t","h","a","t">>,
      <<"t","h","e">>, <<"t","h","e","i","r">>, <<"t","h","e","i","r","s">>,
      <<"t","h","e","m">>, <<"t","h","e","m","s","e","l","v","e","s">>,
      <<"t","h","e","n">>, <<"t","h","e","r","e">>, <<"t","h","e","s","e">>,
      <<"t","h","e","y">>, <<"t","h","i","s">>, <<"t","h","o","s","e">>,
      <<"t","h","r","o","u","g","h">>, <<"t","o">>, <<"t","o","o">>,
      <<"u","n","d","e","r">>, <<"u","n","t","i","l">>, <<"u","p">>,
      <<"v","e","r","y">>, <<"w","a","s">>, <<"w","e">>, <<"w","e","r","e">>,
      <<"w","h","a","t">>, <<"w","h","e","n">>, <<"w","h","e","r","e">>,
      <<"w","h","i","c","h">>, <<"w","h","i","l","e">>, <<"w","h","o">>,
      <<"w","h","o","m">>, <<"w","h","y">>, <<"w","i","t","h">>, <<"y","o","u">>,
      <<"y","o","u","r">>, <<"y","o","u","r","s">>, <<"y","o","u","r","s","e","l","f">>,
      <<"y","o","u","r","s","e","l","v","e","s">>, <<"h","t","t","p","s">>,
      <<"h","t","t","p">>, <<"w","w","w">>, <<"c","o","m">>, <<"n","e","t">>,
      <<"o","r","g">>, <<"i","o">>, <<"d","e","v">>, <<"g","i","t","h","u","b">>,
      <<"d","o","c","s">>, <<"d","o","c">>, <<"a","p","i">>, <<"r","e","a","d","m","e">>,
      <<"l","i","c","e","n","s","e">>, <<"f","a","q">>, <<"p","n","g">>,
      <<"j","p","g">>, <<"j","p","e","g">>, <<"g","i","f">>, <<"w","e","b","p">>,
      <<"s","v","g">>, <<"p","d","f">>, <<"x","m","l">>, <<"r","s","s">>,
      <<"j","s">>, <<"t","s">>, <<"t","s","x">>, <<"j","s","x">>, <<"c","s","s">>,
      <<"h","t","m","l">>, <<"m","d">>, <<"m","d","x">>, <<"a","s","t","r","o">>,
      <<"j","s","o","n">>, <<"i","m","p","o","r","t">>, <<"e","x","p","o","r","t">>,
      <<"c","o","n","s","t">>, <<"v","a","r">>, <<"l","e","t">>, <<"f","u","n","c","t","i","o","n">>,
      <<"r","e","t","u","r","n">>, <<"c","l","a","s","s">>, <<"i","n","t","e","r","f","a","c","e">>,
      <<"n","p","m">>, <<"y","a","r","n">>, <<"p","n","p","m">>, <<"n","o","d","e">>,
      <<"b","u","n">>, <<"s","i","t","e","m","a","p">>, <<"o","g">>,
      <<"m","e","t","a">>, <<"l","i","n","k">>, <<"h","r","e","f">>,
      <<"s","r","c">>, <<"a","l","t">>, <<"t","i","t","l","e">>, <<"d","e","s","c","r","i","p","t","i","o","n">>,
      <<"p","r">>, <<"c","i">>, <<"c","d">> }

\* The characters toWords replaces by a space (all of the class but its
\* first one, the backquote, which a TLA+ string cannot hold and no text of
\* the model contains).
Punctuation ==
    {"~", "!", "@", "#", "$", "%", "^", "&", "*", "(", ")", "_", "+",
     "=", "{", "}", "[", "]", "|", "\\", ":", ";", "\"", "'", "<", ">", ",",
     ".", "?", "/", "-"}

\* String.prototype.replace(/[...]/g, " ")
ReplacePunctuation(s) ==
    [k \in 1..Len(s) |-> IF s[k] \in Punctuation THEN " " ELSE s[k]]

\* String.prototype.split(/\s+/): the pieces between the runs of whitespace,
\* empty pieces at the ends included.
RECURSIVE SplitSpaces(_)
SplitSpaces(s) ==
    LET at == {k \in 1..Len(s) : s[k] \in Spaces}
    IN  IF at = {} THEN <<s>>
        ELSE LET k == CHOOSE x \in at : \A y \in at : x <= y
                 after == {j \in k..Len(s) : s[j] \notin Spaces}
                 next == IF after = {} THEN Len(s) + 1
                         ELSE CHOOSE x \in after : \A y \in after : x <= y
             IN  <<SubSeq(s, 1, k - 1)>> \o SplitSpaces(SubSeq(s, next, Len(s)))

\* /[a-z]/.test(w)
HasLowerLetter(w) == \E k \in 1..Len(w) : w[k] \in LowerLetters

\* The five filters toWords and filterTerms share, in the order of the code,
\* without the stopword filter.
KeepWord_AnyWord(w) ==
    /\ w # <<>>
    /\ Len(w) > 1
    /\ HasLowerLetter(w)
    /\ ~AllDigits(w)

\* The five filters toWords and filterTerms share, in the order of the code.
KeepWord(w) ==
    /\ w # <<>>
    /\ Len(w) > 1
    /\ w \notin EXTRA_STOPWORDS
    /\ HasLowerLetter(w)
    /\ ~AllDigits(w)

toWords(raw) ==
    LET pieces == SplitSpaces(ReplacePunctuation(toLowerCase(raw)))
        trimmed == [k \in 1..Len(pieces) |-> trim(pieces[k])]
    IN  SelectSeq(trimmed, KeepWord)

filterTerms(terms) ==
    LET lowered == [k \in 1..Len(terms) |-> trim(toLowerCase(terms[k]))]
    IN  SelectSeq(lowered, KeepWord)

\* for (let i = 0; i < weight; i++) tfidfTerms.push(...ws)
RECURSIVE Repeat(_, _)
Repeat(ws, weight) ==
    IF weight = 0 THEN <<>> ELSE ws \o Repeat(ws, weight - 1)

\* A pushWeighted that appends the tokens once, whatever the weight.
pushWeighted_Once(s, weight) ==
    IF ~Truthy(s) THEN <<>> ELSE toWords(s.val)

\* pushWeighted(s, weight): what the call appends to tfidfTerms.
pushWeighted(s, weight) ==
    IF ~Truthy(s) THEN <<>> ELSE Repeat(toWords(s.val), weight)

\* for (const h of hs) pushWeighted(h, weight)
RECURSIVE pushEach(_, _)
pushEach(hs, weight) ==
    IF hs = <<>> THEN <<>>
    ELSE pushWeighted(Some(Head(hs)), weight) \o pushEach(Tail(hs), weight)

\* tfidfTerms before the filter: title, description, H1, H2 and H3 with
\* their weights, then the tokens of the text.
weightedTerms(finalTitle, finalDescription, headings, tokens) ==
    pushWeighted(finalTitle, 5)
    \o pushWeighted(finalDescription, 4)
    \o pushEach(headings.h1, 4)
    \o pushEach(headings.h2, 3)
    \o pushEach(headings.h3, 2)
    \o tokens

\* The filtered weighted terms of a document with the given title and text,
\* no description and no heading markup: the title five times, the H1 the
\* title was copied to four times, then the tokens of the text.
filteredTfidf(title, tokens) ==
    filterTerms(weightedTerms(title, Undefined,
                              [h1 |-> IF Truthy(title) THEN <<title.val>> ELSE <<>>,
                               h2 |-> <<>>, h3 |-> <<>>],
                              tokens))

(***************************************************************************)
(* The tokenizer under check: a text is typed, tokenized and weighted.     *)
(***************************************************************************)

LexChars == {"a", "t", "T", "1", " ", "."}

LexTitles == {Undefined, Some(<<"A","t"," ","a","1"," ","t","a","t">>)}

LexInit ==
    /\ lex \in {[pc |-> "text", title |-> t, text |-> <<>>,
                 tokens |-> <<>>, tfidfTerms |-> <<>>] : t \in LexTitles}
    /\ norm = Idle /\ route = Idle /\ read = Idle /\ tfidf = Idle
    /\ report = Idle /\ link = Idle /\ pool = Idle

LexType(c) ==
    /\ lex.pc = "text"
    /\ Len(lex.text) < MaxLexLen
    /\ lex' = [lex EXCEPT !.text = Append(@, c)]
    /\ UNCHANGED exceptLex

LexToWords ==
    /\ lex.pc = "text"
    /\ lex' = [lex EXCEPT !.pc = "tokens", !.tokens = toWords(lex.text)]
    /\ UNCHANGED exceptLex

LexFilterTerms ==
    /\ lex.pc = "tokens"
    /\ lex' = [lex EXCEPT !.pc = "done",
                          !.tfidfTerms = filteredTfidf(lex.title, lex.tokens)]
    /\ UNCHANGED exceptLex

LexNext ==
    \/ \E c \in LexChars : LexType(c)
    \/ LexToWords
    \/ LexFilterTerms

SpecLex == LexInit /\ [][LexNext]_vars

\* The raw words of a text: its pieces between whitespace and punctuation,
\* lowercased.
RawWords(text) == Range(SplitSpaces(ReplacePunctuation(toLowerCase(text))))

\* C18: neither the tokens toWords returns nor the weighted terms
\* filterTerms returns hold an empty string, a string of length 1, a string
\* of digits only or a stopword.
C18_NoNoiseTokens ==
    \A w \in Range(lex.tokens) \cup Range(lex.tfidfTerms) :
        /\ w # <<>>
        /\ Len(w) # 1
        /\ ~AllDigits(w)
        /\ w \notin EXTRA_STOPWORDS

\* C18 witness: a text with a stopword of two letters among its raw words
\* has been tokenized and weighted with a title that holds a stopword too,
\* and tokens are left.
C18_Witness ==
    /\ lex.pc = "done"
    /\ \E w \in RawWords(lex.text) : w \in EXTRA_STOPWORDS /\ Len(w) > 1
    /\ lex.tokens # <<>>
    /\ Len(lex.tfidfTerms) > Len(lex.tokens)

(***************************************************************************)
(* The worker pool of generateReport on its own, over more files than      *)
(* workers: the files are numbered, an analysis is only known by the       *)
(* worker that waits for it and by whether it succeeds, and of documents   *)
(* only the files in it are kept, not their order.                         *)
(***************************************************************************)

\* The files whose analysis can fail.
PoolFailures == {2, 9}

PoolInit ==
    /\ pool \in {[pc |-> "start", files |-> [k \in 1..n |-> k], i |-> 0,
                  workers |-> <<>>, documents |-> {}, failed |-> {}] :
                 n \in 0..MaxPoolFiles}
    /\ norm = Idle /\ route = Idle /\ read = Idle /\ tfidf = Idle
    /\ report = Idle /\ link = Idle /\ lex = Idle

\* Array.from({ length: Math.min(concurrency, files.length) }, () =>
\* worker()): every worker runs up to its first await.
PoolStart ==
    /\ pool.pc = "start"
    /\ LET n == WorkerCount(Len(pool.files))
           r == [pool EXCEPT !.pc = "pool",
                             !.workers = [w \in 1..n |-> [pc |-> "new", idx |-> 0]]]
       IN  pool' = StartWorkers(r, 1, n)
    /\ UNCHANGED exceptPool

\* The analysis worker w waits for resolves: documents.push(doc), then the
\* next round of the loop.
PoolResolve(w) ==
    /\ pool.pc = "pool"
    /\ w \in 1..Len(pool.workers)
    /\ pool.workers[w].pc = "await"
    /\ pool' = NextClaim([pool EXCEPT !.documents =
                              @ \cup {pool.files[pool.workers[w].idx]}], w)
    /\ UNCHANGED exceptPool

\* The analysis worker w waits for rejects: it is logged, then the next
\* round of the loop.
PoolReject(w) ==
    /\ pool.pc = "pool"
    /\ w \in 1..Len(pool.workers)
    /\ pool.workers[w].pc = "await"
    /\ pool.files[pool.workers[w].idx] \in PoolFailures
    /\ pool' = NextClaim([pool EXCEPT !.failed =
                              @ \cup {pool.files[pool.workers[w].idx]}], w)
    /\ UNCHANGED exceptPool

\* await Promise.all(...) is fulfilled.
PoolJoin ==
    /\ pool.pc = "pool"
    /\ AllWorkersDone(pool.workers)
    /\ pool' = [pool EXCEPT !.pc = "done"]
    /\ UNCHANGED exceptPool

PoolNext ==
    \/ PoolStart
    \/ \E w \in 1..concurrency : PoolResolve(w)
    \/ \E w \in 1..concurrency : PoolReject(w)
    \/ PoolJoin

SpecPool == PoolInit /\ [][PoolNext]_vars

\* The analyses in flight: the workers that wait for one.
InFlight == {w \in 1..Len(pool.workers) : pool.workers[w].pc = "await"}

\* C20: at every moment at most min(8, number of files) analyses are in
\* flight, for every number of files and every order of completion.
C20_BoundedInFlight ==
    pool.pc # "idle" =>
        /\ Cardinality(InFlight) <= 8
        /\ Cardinality(InFlight) <= Len(pool.files)

\* C20 witness: with more than eight files, eight analyses are in flight
\* after a worker has taken a second file.
C20_Witness ==
    /\ pool.pc = "pool"
    /\ Len(pool.files) > 8
    /\ pool.i > 8
    /\ Cardinality(InFlight) = 8

\* The pool under the scheduling of the event loop: the workers are started,
\* every analysis that is waited for settles (the promise of analyzeFile is
\* resolved or rejected when the read of the file ends), and Promise.all is
\* fulfilled once every worker has returned.
SpecPoolFair ==
    /\ SpecPool
    /\ WF_vars(PoolStart)
    /\ \A w \in 1..concurrency : WF_vars(PoolResolve(w) \/ PoolReject(w))
    /\ WF_vars(PoolJoin)

\* The files some worker waits for, and the files whose analysis has ended.
PoolClaimed == {pool.files[pool.workers[w].idx] : w \in InFlight}

PoolSettled == pool.documents \cup pool.failed

\* No two workers wait for the same file, no file that was analysed is
\* taken again, the files taken are exactly the first i ones, and a worker
\* only returns when i has reached the number of files.
ClaimedOnce ==
    pool.pc \in {"pool", "done"} =>
        /\ \A v, w \in InFlight : v # w => pool.workers[v].idx # pool.workers[w].idx
        /\ PoolClaimed \cap PoolSettled = {}
        /\ pool.documents \cap pool.failed = {}
        /\ pool.i <= Len(pool.files)
        /\ PoolClaimed \cup PoolSettled = {pool.files[k] : k \in 1..pool.i}
        /\ \A w \in 1..Len(pool.workers) :
               pool.workers[w].pc = "done" => pool.i = Len(pool.files)
        /\ pool.pc = "done" => PoolSettled = Range(pool.files)

\* documents only grows, and every push adds a file that was not in it.
PushesOnce ==
    /\ pool.documents \subseteq pool'.documents
    /\ \A w \in 1..concurrency :
           PoolResolve(w) =>
               Cardinality(pool'.documents) = Cardinality(pool.documents) + 1

\* C21: with the workers sharing the counter i, every file is taken by
\* exactly one worker under every interleaving: no index is skipped and
\* none is analysed twice, documents only grows and never gets a second
\* entry for a path, and once i has reached the number of files all
\* workers stop.
C21_EachFileClaimedOnce ==
    /\ []ClaimedOnce
    /\ [][PushesOnce]_vars
    /\ (pool.pc = "pool" /\ pool.i = Len(pool.files)) ~> AllWorkersDone(pool.workers)
    /\ (pool.pc = "start") ~> (pool.pc = "done")

\* C21 witness: a run over more files than workers has ended, with every
\* file analysed or failed.
C21_Witness ==
    /\ pool.pc = "done"
    /\ Len(pool.files) > concurrency
    /\ pool.failed # {}
    /\ Cardinality(pool.documents) + Cardinality(pool.failed) = Len(pool.files)

(***************************************************************************)
(* The weighted terms of a markdown document: its headings are read from   *)
(* the lines of the text, and title, description and headings are weighted *)
(* before the tokens of the text.                                          *)
(***************************************************************************)

\* The number of whitespace characters a line starts with.
LeadingSpaces(line) ==
    LET inner == {k \in 1..Len(line) : line[k] \notin Spaces}
    IN  IF inner = {} THEN Len(line)
        ELSE (CHOOSE k \in inner : \A j \in inner : k <= j) - 1

\* The number of # characters of the line from position p on.
HashRun(line, p) ==
    LET other == {k \in p..Len(line) : line[k] # "#"}
    IN  IF other = {} THEN Len(line) - p + 1
        ELSE (CHOOSE k \in other : \A j \in other : k <= j) - p

\* /^\s*#{level}\s+(.+)$/.exec(line), and the trimmed group 1 of a match.
MdHeading(line, level) ==
    LET lead == LeadingSpaces(line)
        after == lead + level + 1
    IN  IF /\ HashRun(line, lead + 1) = level
           /\ after + 1 <= Len(line)
           /\ line[after] \in Spaces
        THEN Some(trim(SubSeq(line, after, Len(line))))
        ELSE Undefined

\* The headings of one level, in the order of the lines.
RECURSIVE HeadingsOf(_, _)
HeadingsOf(lines, level) ==
    IF lines = <<>> THEN <<>>
    ELSE LET h == MdHeading(Head(lines), level)
         IN  (IF h.some THEN <<h.val>> ELSE <<>>) \o HeadingsOf(Tail(lines), level)

extractMdHeadings(lines) ==
    [h1 |-> HeadingsOf(lines, 1), h2 |-> HeadingsOf(lines, 2), h3 |-> HeadingsOf(lines, 3)]

\* line.replace(/^\s*#+\s+/, " "): the heading marker of a line, of any
\* level, becomes a space.
StripMarker(line) ==
    LET lead == LeadingSpaces(line)
        hashes == HashRun(line, lead + 1)
        rest == SubSeq(line, lead + hashes + 1, Len(line))
    IN  IF hashes >= 1 /\ rest # <<>> /\ rest[1] \in Spaces
        THEN <<" ">> \o SubSeq(rest, LeadingSpaces(rest) + 1, Len(rest))
        ELSE line

\* The text analyzeFile tokenizes for a markdown file: the heading markers
\* are replaced line by line (the flags gm), the lines stay joined by "\n".
\* The lines of the model hold no link, brace or tag for the other
\* replacements to act on.
MdText(lines) == Join([k \in 1..Len(lines) |-> StripMarker(lines[k])], "\n")

WeighLines ==
    { <<"#"," ","A","t"," ","t","a","t">>, <<"#","#"," ","a","1"," ","t","t">>, <<"#","#","#"," ","t","a","t">>, <<"t","a","t"," ","a","1">>, <<"#","t","t"," ","1">>, <<" ","#"," "," ">>, <<"#","#","#","#"," "," ","a","t">> }

WeighTitles == {Undefined, Some(<<"T","a","t"," ","a","t">>)}

WeighDescriptions == {Undefined, Some(<<>>), Some(<<"a","1","."," ","a","t"," ","1">>)}

WeighInit ==
    /\ lex \in {[pc |-> "raw", title |-> t, description |-> d, lines |-> <<>>,
                 headings |-> [h1 |-> <<>>, h2 |-> <<>>, h3 |-> <<>>],
                 tokens |-> <<>>, weighted |-> <<>>, tfidfTerms |-> <<>>] :
                t \in WeighTitles, d \in WeighDescriptions}
    /\ norm = Idle /\ route = Idle /\ read = Idle /\ tfidf = Idle
    /\ report = Idle /\ link = Idle /\ pool = Idle

\* One more line of the file.
WeighLine(l) ==
    /\ lex.pc = "raw"
    /\ Len(lex.lines) < MaxLines
    /\ lex' = [lex EXCEPT !.lines = Append(@, l)]
    /\ UNCHANGED exceptLex

\* analyzeFile on a markdown file, from the headings to filteredTfidf.
WeighAnalyze ==
    /\ lex.pc = "raw"
    /\ LET found == extractMdHeadings(lex.lines)
           h1 == BackfillH1([h1 |-> found.h1, name |-> Undefined],
                            <<".","m","d">>, lex.title)
           headings == [found EXCEPT !.h1 = h1]
           tokens == toWords(MdText(lex.lines))
           weighted == weightedTerms(lex.title, lex.description, headings, tokens)
       IN  lex' = [lex EXCEPT !.pc = "done", !.headings = headings,
                              !.tokens = tokens, !.weighted = weighted,
                              !.tfidfTerms = filterTerms(weighted)]
    /\ UNCHANGED exceptLex

WeighNext ==
    \/ \E l \in WeighLines : WeighLine(l)
    \/ WeighAnalyze

SpecWeigh == WeighInit /\ [][WeighNext]_vars

\* How often w occurs in a list of tokens.
Occurrences(w, tokens) == Cardinality({k \in 1..Len(tokens) : tokens[k] = w})

\* The tokens of a field that may be absent, and of a list of headings.
FieldTokens(s) == IF Truthy(s) THEN toWords(s.val) ELSE <<>>

RECURSIVE HeadingTokens(_)
HeadingTokens(hs) ==
    IF hs = <<>> THEN <<>> ELSE toWords(Head(hs)) \o HeadingTokens(Tail(hs))

\* C22: tfidfTerms holds every token as often as 5 times its occurrences in
\* the title, 4 times those in the description, 4 times those in the H1
\* headings, 3 times those in the H2 and 2 times those in the H3 headings
\* of the document, plus its occurrences in the text; it ends with the
\* tokens of the text in their order, and filterTerms removed nothing.
C22_WeightedBag ==
    lex.pc = "done" =>
        /\ \A w \in Range(lex.tfidfTerms) \cup Range(lex.tokens)
                     \cup Range(FieldTokens(lex.title))
                     \cup Range(FieldTokens(lex.description))
                     \cup Range(HeadingTokens(lex.headings.h1))
                     \cup Range(HeadingTokens(lex.headings.h2))
                     \cup Range(HeadingTokens(lex.headings.h3)) :
               Occurrences(w, lex.tfidfTerms) =
                   5 * Occurrences(w, FieldTokens(lex.title))
                   + 4 * Occurrences(w, FieldTokens(lex.description))
                   + 4 * Occurrences(w, HeadingTokens(lex.headings.h1))
                   + 3 * Occurrences(w, HeadingTokens(lex.headings.h2))
                   + 2 * Occurrences(w, HeadingTokens(lex.headings.h3))
                   + Occurrences(w, lex.tokens)
        /\ Len(lex.tfidfTerms) >= Len(lex.tokens)
        /\ SubSeq(lex.tfidfTerms, Len(lex.tfidfTerms) - Len(lex.tokens) + 1,
                  Len(lex.tfidfTerms)) = lex.tokens
        /\ lex.tfidfTerms = lex.weighted

\* C22 witness: a document with a title, a description, an H1, an H2 and an
\* H3 heading of its own has been weighted.
C22_Witness ==
    /\ lex.pc = "done"
    /\ FieldTokens(lex.title) # <<>>
    /\ FieldTokens(lex.description) # <<>>
    /\ HeadingTokens(lex.headings.h1) # <<>>
    /\ lex.headings.h1 # <<lex.title.val>>
    /\ HeadingTokens(lex.headings.h2) # <<>>
    /\ HeadingTokens(lex.headings.h3) # <<>>
    /\ lex.tokens # <<>>

(***************************************************************************)
(* The keywords of the documents: generateReport from the weighted corpus  *)
(* to topKeywords, over documents that are known by their weighted terms.  *)
(***************************************************************************)

\* The weighted terms of the documents: two with more than twelve terms
\* that they share, one with two surfaces of one term, one with a term of
\* its own, and one without terms.
KeywordBags ==
    { << <<"a","a">>, <<"a","a">>, <<"a","b">>, <<"a","c">>, <<"a","d">>, <<"a","e">>, <<"a","f">>, <<"a","g">>, <<"a","h">>, <<"a","i">>, <<"a","j">>, <<"a","k">>, <<"a","l">>, <<"a","o">> >>,
      << <<"a","o">>, <<"a","l">>, <<"a","k">>, <<"a","j">>, <<"a","i">>, <<"a","h">>, <<"a","g">>, <<"a","f">>, <<"a","e">>, <<"a","d">>, <<"a","c">>, <<"a","b">>, <<"a","a">> >>,
      << <<"t","e","s","t","s">>, <<"t","e","s","t">>, <<"a","a">> >>,
      << <<"t","e","s","t">>, <<"z","z">> >>,
      << >> }

KeywordsInit ==
    /\ tfidf = [pc |-> "analysed", documents |-> <<>>, topUnigrams |-> <<>>]
    /\ norm = Idle /\ route = Idle /\ read = Idle /\ report = Idle
    /\ link = Idle /\ lex = Idle /\ pool = Idle

\* documents.push(doc), for a document with the weighted terms b.
KeywordsPush(b) ==
    /\ tfidf.pc = "analysed"
    /\ Len(tfidf.documents) < MaxKeywordDocs
    /\ tfidf' = [tfidf EXCEPT !.documents =
                     Append(@, [filePath |-> Len(@) + 1, tfidfTerms |-> b,
                                topKeywords |-> <<>>])]
    /\ UNCHANGED exceptTfidf

\* generateReport from weightedUnigrams to the topKeywords of every
\* document.
KeywordsRank ==
    /\ tfidf.pc = "analysed"
    /\ tfidf' = [pc |-> "ranked",
                 documents |-> WithTopKeywords(tfidf.documents),
                 topUnigrams |-> computeTfidfEnhanced(
                     WeightedCorpus(tfidf.documents, 1), 40, MinDocFreqOpt(2))]
    /\ UNCHANGED exceptTfidf

KeywordsNext ==
    \/ \E b \in KeywordBags : KeywordsPush(b)
    \/ KeywordsRank

SpecKeywords == KeywordsInit /\ [][KeywordsNext]_vars

\* The count of the normalized term t in the weighted terms of a document,
\* and the number of documents that hold it.
TermCount(d, t) ==
    Cardinality({k \in 1..Len(d.tfidfTerms) : normalizeTerm(d.tfidfTerms[k]) = t})

KeywordDocFreq(documents, t) ==
    Cardinality({k \in 1..Len(documents) : TermCount(documents[k], t) > 0})

\* The normalized terms of a document that two documents or more hold.
SharedTerms(documents, d) ==
    {t \in {normalizeTerm(d.tfidfTerms[k]) : k \in 1..Len(d.tfidfTerms)} \ {<<>>} :
        KeywordDocFreq(documents, t) >= 2}

\* The sum over the first n documents of their scores of the term t.
RECURSIVE CorpusScore(_, _, _)
CorpusScore(documents, t, n) ==
    IF n = 0 THEN 0
    ELSE CorpusScore(documents, t, n - 1)
         + (IF TermCount(documents[n], t) = 0 THEN 0
            ELSE Score(TermCount(documents[n], t), KeywordDocFreq(documents, t),
                       Len(documents)))

\* C23: topKeywords of every document holds at most 12 entries with
\* non-increasing scores, one for each of its terms that two documents or
\* more hold as far as 12 reach, each scored (1 + ln f) times the idf of
\* the corpus, with f the count of the term in the document; these are the
\* scores the corpus ranking adds up for the term.
C23_KeywordsUseCorpusIdf ==
    tfidf.pc = "ranked" =>
        /\ \A k \in 1..Len(tfidf.documents) :
               LET d == tfidf.documents[k]
                   top == d.topKeywords
                   shared == Cardinality(SharedTerms(tfidf.documents, d))
               IN  /\ Len(top) <= 12
                   /\ Len(top) = IF shared < 12 THEN shared ELSE 12
                   /\ \A j \in 1..(Len(top) - 1) : top[j].tfidf >= top[j + 1].tfidf
                   /\ \A j \in 1..Len(top) :
                          LET t == normalizeTerm(top[j].term)
                          IN  /\ t \in SharedTerms(tfidf.documents, d)
                              /\ top[j].tfidf =
                                    Score(TermCount(d, t),
                                          KeywordDocFreq(tfidf.documents, t),
                                          Len(tfidf.documents))
        /\ \A j \in 1..Len(tfidf.topUnigrams) :
               tfidf.topUnigrams[j].tfidf =
                   CorpusScore(tfidf.documents,
                               normalizeTerm(tfidf.topUnigrams[j].term),
                               Len(tfidf.documents))

\* C23 witness: a document with more than twelve shared terms got twelve
\* keywords, not all of one score, and another one got fewer.
C23_Witness ==
    /\ tfidf.pc = "ranked"
    /\ \E k \in 1..Len(tfidf.documents) :
           LET d == tfidf.documents[k]
           IN  /\ Cardinality(SharedTerms(tfidf.documents, d)) > 12
               /\ Len(d.topKeywords) = 12
               /\ d.topKeywords[1].tfidf > d.topKeywords[12].tfidf
    /\ \E k \in 1..Len(tfidf.documents) :
           Len(tfidf.documents[k].topKeywords) \in 1..11

\* No normalized term of the weighted terms of a document is held by a
\* second document.
NoSharedTerm(documents) ==
    \A k \in 1..Len(documents) : SharedTerms(documents, documents[k]) = {}

\* C25: with minDocFreq fixed at 2, a corpus in which no normalized term
\* occurs in two documents (every corpus of one document is one) has empty
\* topUnigrams, topBigrams and topTrigrams, and every document has an empty
\* topKeywords.
C25_NoSharedTermNoRanking ==
    (report.pc = "done" /\ NoSharedTerm(report.documents)) =>
        /\ report.summary.topUnigrams = <<>>
        /\ report.summary.topBigrams = <<>>
        /\ report.summary.topTrigrams = <<>>
        /\ \A k \in 1..Len(report.documents) : report.documents[k].topKeywords = <<>>

\* C25 witness: a report over one document with three weighted terms, two
\* of them the same, and a report over two documents with terms that share
\* no normalized term.
C25_Witness ==
    /\ report.pc = "done"
    /\ NoSharedTerm(report.documents)
    /\ \/ /\ Len(report.documents) = 1
          /\ Len(report.documents[1].tfidfTerms) = 3
       \/ /\ Len(report.documents) = 2
          /\ report.documents[1].tfidfTerms # <<>>
          /\ report.documents[2].tfidfTerms # <<>>

=============================================================================
